---------------------------- MODULE Spec2Model ----------------------------
(***************************************************************************)
(* Multi-tenant authentication / company-selection model of the three     *)
(* auth route files of the repository:                                    *)
(*   eco  : accounting-ecosystem/backend/shared/routes/auth.js (Supabase) *)
(*   pos  : Point of Sale/routes/auth.js (sqlite)                         *)
(*   mock : accounting-ecosystem/backend/mock-routes-shared.js (memory)   *)
(* Tables are sequences of rows in table order.  JSON null is 0 for ids   *)
(* and "null" for strings; a field a payload does not carry is            *)
(* "undefined".                                                           *)
(***************************************************************************)
EXTENDS Integers, Sequences, FiniteSets, TLC

VARIABLES
    users,                 \* table users
    companies,             \* table companies
    user_company_access,   \* table user_company_access (the access edges)
    firm_company_access,   \* table firm_company_access (pos only)
    invitations,           \* table invitations (pos)
    locations,             \* table locations (pos)
    company_settings,      \* table company_settings (pos)
    now,                   \* CURRENT_TIMESTAMP
    reqs,                  \* the requests in flight, each at one of its database calls
    res,                   \* the response of the last request handled
    server,                \* which server is running: "eco", "pos", "mock" or "lorenco"
    sean_allowedEmail,     \* table AllowedEmail of the Sean webapp
    sean_user,             \* table User of the Sean webapp (the emails)
    sean_session,          \* table Session of the Sean webapp
    sean_issued,           \* how many session tokens uuidv4 has handed out
    bearer,                \* the token a client holds and presents as Bearer
    logouts,               \* the LOGOUT audit events, each with the token presented
    memo,                  \* an answer a caller has kept to compare later answers with
    payrollPeriods,        \* mock.payrollPeriods of the payroll routes
    journals,              \* the committed journal entries of the accounting app
    integration_transactions,  \* the committed rows of table integration_transactions
    batches                \* the import batches in flight, each in its transaction

\* the state of the Sean webapp and of the client of the token lifecycle,
\* which the handlers of the stores above never touch
sean == <<sean_allowedEmail, sean_user, sean_session, sean_issued>>
\* what callers keep between their calls
kept == <<memo>>
\* the payroll periods and the ledger of the accounting app
books == <<payrollPeriods, journals, integration_transactions, batches>>
elsewhere == <<sean, bearer, logouts, kept, books>>

vars == <<users, companies, user_company_access, firm_company_access, invitations,
          locations, company_settings, now, reqs, res, server, elsewhere>>

-----------------------------------------------------------------------------
(* Domains of the drawn stores and requests *)

UserIds == {1, 2}
CompanyIds == {1, 2}
Roles == {"business_owner", "cashier"}
Statuses == {"active", "pending", "suspended", "trial"}
Passwords == {"good", "bad"}
Apps == {"eco", "pos", "mock"}

\* the username and the email of the seeded user i
UserName(i) == <<"u1", "u2", "u3">>[i]
Email(i) == <<"e1", "e2", "e3">>[i]
LoginIds == {UserName(i) : i \in UserIds} \cup {Email(i) : i \in UserIds} \cup {"nobody"}

B2S(b) == IF b THEN "true" ELSE "false"

-----------------------------------------------------------------------------
(* Sequence helpers *)

RECURSIVE Flatten(_)
Flatten(ss) == IF ss = <<>> THEN <<>> ELSE Head(ss) \o Flatten(Tail(ss))

Map(f(_), s) == [i \in 1..Len(s) |-> f(s[i])]

Range(s) == {s[i] : i \in 1..Len(s)}

\* Array.prototype.sort((a, b) => (b.is_primary ? 1 : 0) - (a.is_primary ? 1 : 0)):
\* a stable sort, primaries first.
SortPrimaryFirst(list) ==
    SelectSeq(list, LAMBDA c : c.is_primary = "true")
        \o SelectSeq(list, LAMBDA c : c.is_primary # "true")

\* the ids of CompanyIds in increasing order
RECURSIVE IdsAscending(_)
IdsAscending(S) ==
    IF S = {} THEN <<>>
    ELSE LET m == CHOOSE x \in S : \A y \in S : x <= y
         IN <<m>> \o IdsAscending(S \ {m})

-----------------------------------------------------------------------------
(* Rows, payloads and responses *)

NoCompany == [id |-> 0, role |-> "null", is_primary |-> "undefined"]

NoToken ==
    [userId |-> 0, username |-> "undefined", companyId |-> 0, role |-> "null",
     isSuperAdmin |-> "undefined",
     userType |-> "undefined", accountingFirmId |-> 0, expiresIn |-> 0,
     targetApp |-> "undefined"]

\* a response; the fields a handler does not send keep the values given here
\* getRolePermissions(role): the permission set resolved for a role, told by
\* the role it was resolved for
GetRolePermissions(role) == [resolvedFor |-> role]

\* a response without permissions
NoPermissions == [resolvedFor |-> "undefined"]

Response(app, op, status) ==
    [app |-> app, op |-> op, status |-> status, error |-> "",
     token |-> NoToken, companies |-> <<>>, selectedCompany |-> NoCompany,
     requiresCompanySelection |-> "undefined", subscriptionStatus |-> "undefined",
     role |-> "undefined", userId |-> 0, companyId |-> 0,
     username |-> "", email |-> "", invitationToken |-> "",
     newUserId |-> 0, newCompanyId |-> 0,
     permissions |-> NoPermissions, identity |-> NoToken, required |-> "undefined",
     cookie |-> 0, periodId |-> 0, requested |-> "none"]

Fail(app, op, status, error) == [Response(app, op, status) EXCEPT !.error = error]

\* rows of a table with a given id
UserRows(id) == SelectSeq(users, LAMBDA u : u.id = id)
CompanyRows(id) == SelectSeq(companies, LAMBDA c : c.id = id)

\* bcrypt.compare(password, user.password_hash)
ValidPassword(password, user) == password = user.password

\* a login that finds no user, told apart from a wrong password
NoSuchUser_Told(app) == Fail(app, "login", 404, "User not found")

\* res.status(401).json({ error: 'Invalid credentials' }) when no user is found
NoSuchUser(app) == Fail(app, "login", 401, "Invalid credentials")

\* the identity the authentication middleware attaches to a request: the payload
\* of a token that login minted for this user
ReqUser(u) ==
    [userId |-> u.id,
     username |-> u.username,
     userType |-> u.user_type,
     accountingFirmId |-> u.accounting_firm_id]

-----------------------------------------------------------------------------
(* eco: POST /login *)

\* users WHERE (username = loginId OR email = loginId) AND is_active, in table order
ActiveUsersByLogin(loginId) ==
    SelectSeq(users, LAMBDA u : u.is_active /\ (u.username = loginId \/ u.email = loginId))

\* companies WHERE is_active ORDER BY company_name, each as a super_admin entry
EcoAllCompanies ==
    Flatten(Map(LAMBDA id :
                   Map(LAMBDA c : [id |-> c.id, role |-> "super_admin", is_primary |-> "true"],
                       SelectSeq(companies, LAMBDA c : c.id = id /\ c.is_active)),
                IdsAscending({c.id : c \in Range(companies)})))

\* EcoAccessList with the is_active condition left out
EcoAccessList_AnyState(userId) ==
    Map(LAMBDA a : [id |-> a.company_id, role |-> a.role, is_primary |-> B2S(a.is_primary)],
        SelectSeq(user_company_access,
                  LAMBDA a : a.user_id = userId /\ CompanyRows(a.company_id) # <<>>))

\* user_company_access WHERE user_id AND is_active, joined to its company row;
\* .filter(c => c.companies) drops the rows whose company does not exist
EcoAccessList(userId) ==
    Map(LAMBDA a : [id |-> a.company_id, role |-> a.role, is_primary |-> B2S(a.is_primary)],
        SelectSeq(user_company_access,
                  LAMBDA a : a.user_id = userId /\ a.is_active
                             /\ CompanyRows(a.company_id) # <<>>))

EcoCompanyList(user) ==
    SortPrimaryFirst(IF user.is_super_admin THEN EcoAllCompanies ELSE EcoAccessList(user.id))

EcoLoginResponse(loginId, password) ==
    LET found == ActiveUsersByLogin(loginId)
    IN  IF Len(found) # 1 THEN NoSuchUser("eco")
        ELSE LET user == found[1]
                 companyList == EcoCompanyList(user)
                 selectedCompany == IF Len(companyList) = 1 THEN companyList[1] ELSE NoCompany
             IN  IF ~ValidPassword(password, user)
                 THEN Fail("eco", "login", 401, "Invalid credentials")
                 ELSE [Response("eco", "login", 200) EXCEPT
                         !.token = [NoToken EXCEPT
                                      !.userId = user.id,
                                      !.username = user.username,
                                      !.isSuperAdmin = B2S(user.is_super_admin),
                                      !.companyId = selectedCompany.id,
                                      !.role = selectedCompany.role,
                                      !.expiresIn = 8],
                         !.userId = user.id,
                         !.companies = companyList,
                         !.selectedCompany = selectedCompany,
                         !.requiresCompanySelection = B2S(Len(companyList) > 1)]

(* eco: POST /select-company *)

\* ActiveAccess with the is_active condition left out
ActiveAccess_AnyState(userId, companyId) ==
    SelectSeq(user_company_access,
              LAMBDA a : a.user_id = userId /\ a.company_id = companyId)

\* user_company_access WHERE user_id AND company_id AND is_active
ActiveAccess(userId, companyId) ==
    SelectSeq(user_company_access,
              LAMBDA a : a.user_id = userId /\ a.company_id = companyId /\ a.is_active)

EcoSelectCompanyResponse(reqUser, companyId) ==
    LET access == ActiveAccess(reqUser.userId, companyId)
        base == [Response("eco", "select-company", 200) EXCEPT
                   !.userId = reqUser.userId, !.companyId = companyId]
    IN  IF companyId = 0
        THEN [base EXCEPT !.status = 400, !.error = "companyId is required"]
        ELSE IF Len(access) # 1      \* .single() fails on no row and on several rows
        THEN [base EXCEPT !.status = 403, !.error = "You do not have access to this company"]
        ELSE [base EXCEPT
                !.token = [NoToken EXCEPT
                             !.userId = reqUser.userId,
                             !.username = reqUser.username,
                             !.companyId = companyId,
                             !.role = access[1].role,
                             !.expiresIn = 8],
                !.role = access[1].role]

-----------------------------------------------------------------------------
(* pos: POST /login *)

\* SELECT ... FROM companies c JOIN user_company_access uca ON c.id = uca.company_id
\* WHERE uca.user_id = ? AND uca.is_active = 1 AND c.is_active = 1 [AND c.id = ?];
\* the rows of one company, in table order
PosAccessJoin(userId, companyId) ==
    Flatten(Map(LAMBDA c :
                   Map(LAMBDA a : [id |-> c.id, role |-> a.role,
                                   is_primary |-> B2S(a.is_primary),
                                   subscription_status |-> c.subscription_status],
                       SelectSeq(user_company_access,
                                 LAMBDA a : a.user_id = userId /\ a.company_id = c.id
                                            /\ a.is_active)),
                SelectSeq(companies, LAMBDA c : c.id = companyId /\ c.is_active)))

\* SELECT ..., 'accountant' as role FROM companies c JOIN firm_company_access fca
\* ON c.id = fca.company_id WHERE fca.firm_id = ? AND fca.is_active = 1
\* AND c.is_active = 1 [AND c.id = ?]
PosFirmJoin(firmId, companyId) ==
    Flatten(Map(LAMBDA c :
                   Map(LAMBDA f : [id |-> c.id, role |-> "accountant",
                                   is_primary |-> "undefined",
                                   subscription_status |-> c.subscription_status],
                       SelectSeq(firm_company_access,
                                 LAMBDA f : f.firm_id = firmId /\ f.company_id = c.id
                                            /\ f.is_active)),
                SelectSeq(companies, LAMBDA c : c.id = companyId /\ c.is_active)))

\* accountants of a firm go through the firm, everybody else through the edges
IsFirmAccountant(userType, firmId) == userType = "accountant" /\ firmId # 0

Entry(row) == [id |-> row.id, role |-> row.role, is_primary |-> row.is_primary]

\* ORDER BY uca.is_primary DESC, c.company_name ASC (company names ascend with the id)
PosCompanies(userType, firmId, userId) ==
    LET ids == IdsAscending({c.id : c \in Range(companies)})
        byName(join(_)) == Map(Entry, Flatten(Map(join, ids)))
    IN  IF IsFirmAccountant(userType, firmId)
        THEN byName(LAMBDA id : PosFirmJoin(firmId, id))
        ELSE SortPrimaryFirst(byName(LAMBDA id : PosAccessJoin(userId, id)))

PosLoginResponse(username, password) ==
    LET found == ActiveUsersByLogin(username)
    IN  IF found = <<>> THEN NoSuchUser("pos")
        ELSE LET user == found[1]
                 list == PosCompanies(user.user_type, user.accounting_firm_id, user.id)
                 selectedCompany == IF Len(list) = 1 THEN list[1] ELSE NoCompany
             IN  IF ~ValidPassword(password, user)
                 THEN Fail("pos", "login", 401, "Invalid credentials")
                 ELSE [Response("pos", "login", 200) EXCEPT
                         !.token = [NoToken EXCEPT
                                      !.userId = user.id,
                                      !.username = user.username,
                                      !.userType = user.user_type,
                                      !.accountingFirmId = user.accounting_firm_id,
                                      !.companyId = selectedCompany.id,
                                      !.role = selectedCompany.role,
                                      !.expiresIn = 8],
                         !.userId = user.id,
                         !.companies = list,
                         !.selectedCompany = selectedCompany,
                         !.requiresCompanySelection = B2S(Len(list) > 1)]

(* pos: POST /select-company *)

PosSelectCompanyResponse(reqUser, companyId) ==
    LET rows == IF IsFirmAccountant(reqUser.userType, reqUser.accountingFirmId)
                THEN PosFirmJoin(reqUser.accountingFirmId, companyId)
                ELSE PosAccessJoin(reqUser.userId, companyId)
        base == [Response("pos", "select-company", 200) EXCEPT
                   !.userId = reqUser.userId, !.companyId = companyId]
    IN  IF companyId = 0
        THEN [base EXCEPT !.status = 400, !.error = "Company ID is required"]
        ELSE IF rows = <<>>
        THEN [base EXCEPT !.status = 403, !.error = "Access denied to this company"]
        ELSE IF rows[1].subscription_status = "suspended"
        THEN [base EXCEPT !.status = 403, !.error = "Company subscription suspended",
                          !.subscriptionStatus = "suspended"]
        ELSE IF rows[1].subscription_status = "pending"
        THEN [base EXCEPT !.status = 403, !.error = "Company pending approval",
                          !.subscriptionStatus = "pending"]
        ELSE IF UserRows(reqUser.userId) = <<>>
        THEN [base EXCEPT !.status = 500, !.error = "Database error"]
        ELSE [base EXCEPT
                !.token = [NoToken EXCEPT
                             !.userId = UserRows(reqUser.userId)[1].id,
                             !.username = UserRows(reqUser.userId)[1].username,
                             !.userType = reqUser.userType,
                             !.accountingFirmId = reqUser.accountingFirmId,
                             !.companyId = rows[1].id,
                             !.role = rows[1].role,
                             !.expiresIn = 8],
                !.role = rows[1].role,
                !.permissions = GetRolePermissions(rows[1].role)]

-----------------------------------------------------------------------------
(* mock: POST /login *)

\* mock.companies.filter(c => c.is_active !== false), is_primary: c.id === 1
MockAllCompanies ==
    Map(LAMBDA c : [id |-> c.id, role |-> "super_admin", is_primary |-> B2S(c.id = 1)],
        SelectSeq(companies, LAMBDA c : c.is_active))

\* the access records of the user whatever their is_active
MockAccessList_AnyState(userId) ==
    Map(LAMBDA a : [id |-> a.company_id, role |-> a.role, is_primary |-> B2S(a.is_primary)],
        SelectSeq(user_company_access,
                  LAMBDA a : a.user_id = userId /\ CompanyRows(a.company_id) # <<>>))

\* the active access records of the user, mapped to their company (dropped when
\* the company is not found), primaries first
MockAccessList(userId) ==
    Map(LAMBDA a : [id |-> a.company_id, role |-> a.role, is_primary |-> B2S(a.is_primary)],
        SelectSeq(user_company_access,
                  LAMBDA a : a.user_id = userId /\ a.is_active
                             /\ CompanyRows(a.company_id) # <<>>))

MockCompanyList(userId) == SortPrimaryFirst(MockAccessList(userId))

MockLoginResponse(loginId, password) ==
    LET found == ActiveUsersByLogin(loginId)
    IN  IF found = <<>> THEN NoSuchUser("mock")
        ELSE LET user == found[1]
                 allCompanies == MockAllCompanies
                 primaryCompany == IF allCompanies = <<>> THEN NoCompany ELSE allCompanies[1]
                 companyList == MockCompanyList(user.id)
                 primaries == SelectSeq(companyList, LAMBDA c : c.is_primary = "true")
                 selectedCompany ==
                     IF Len(companyList) = 1 THEN companyList[1]
                     ELSE IF Len(companyList) > 0 /\ primaries # <<>> THEN primaries[1]
                     ELSE NoCompany
             IN  IF ~ValidPassword(password, user)
                 THEN Fail("mock", "login", 401, "Invalid credentials")
                 ELSE IF user.is_super_admin
                 THEN [Response("mock", "login", 200) EXCEPT
                         !.token = [NoToken EXCEPT
                                      !.userId = user.id,
                                      !.username = user.username,
                                      !.isSuperAdmin = "true",
                                      !.role = "super_admin",
                                      !.companyId = primaryCompany.id,
                                      !.expiresIn = 24],
                         !.userId = user.id,
                         !.companies = allCompanies,
                         !.selectedCompany = primaryCompany]
                 ELSE [Response("mock", "login", 200) EXCEPT
                         !.token = [NoToken EXCEPT
                                      !.userId = user.id,
                                      !.username = user.username,
                                      !.companyId = selectedCompany.id,
                                      !.role = selectedCompany.role,
                                      !.expiresIn = 8],
                         !.userId = user.id,
                         !.companies = companyList,
                         !.selectedCompany = selectedCompany,
                         !.requiresCompanySelection =
                             B2S(Len(companyList) > 1 /\ selectedCompany = NoCompany)]

(* mock: POST /select-company *)

MockSelectCompanyResponse(reqUser, companyId) ==
    LET access == ActiveAccess(reqUser.userId, companyId)
        base == [Response("mock", "select-company", 200) EXCEPT
                   !.userId = reqUser.userId, !.companyId = companyId]
    IN  IF companyId = 0
        THEN [base EXCEPT !.status = 400, !.error = "companyId is required"]
        ELSE IF access = <<>>
        THEN [base EXCEPT !.status = 403, !.error = "You do not have access to this company"]
        ELSE [base EXCEPT
                !.token = [NoToken EXCEPT
                             !.userId = reqUser.userId,
                             !.username = reqUser.username,
                             !.companyId = companyId,
                             !.role = access[1].role,
                             !.expiresIn = 8],
                !.role = access[1].role]

-----------------------------------------------------------------------------
(* eco and mock: POST /sso-launch *)

TargetApps == {"pos", "payroll", "accounting", "sean"}

\* the payloads of the tokens the user can hold: the one a login mints and
\* the ones select-company mints for the companies of the store
EcoTokens(u) ==
    {r.token : r \in {x \in {EcoLoginResponse(u.username, u.password)}
                              \cup {EcoSelectCompanyResponse(ReqUser(u), c.id) :
                                       c \in Range(companies)} : x.status = 200}}

MockTokens(u) ==
    {r.token : r \in {x \in {MockLoginResponse(u.username, u.password)}
                              \cup {MockSelectCompanyResponse(ReqUser(u), c.id) :
                                       c \in Range(companies)} : x.status = 200}}

(* GET /companies *)

\* eco: the active edges of req.user.userId whose company exists, unsorted
EcoCompaniesResponse(reqUser) ==
    [Response("eco", "companies", 200) EXCEPT
        !.userId = reqUser.userId, !.companies = EcoAccessList(reqUser.userId)]

MockCompaniesResponse(reqUser) ==
    [Response("mock", "companies", 200) EXCEPT
        !.userId = reqUser.userId, !.companies = MockAccessList(reqUser.userId)]

(* POST /sso-launch *)

\* req.user.role || 'admin'
RoleOrAdmin(reqUser) == IF reqUser.role # "null" THEN reqUser.role ELSE "admin"

SsoResponse(app, user, targetApp, companyId, role) ==
    [Response(app, "sso-launch", 200) EXCEPT
        !.token = [NoToken EXCEPT
                     !.userId = user.id, !.username = user.username,
                     !.companyId = companyId, !.role = role,
                     !.isSuperAdmin = B2S(user.is_super_admin),
                     !.targetApp = targetApp, !.expiresIn = 8],
        !.userId = user.id,
        !.companyId = companyId,
        !.selectedCompany =
            IF CompanyRows(companyId) # <<>>
            THEN [id |-> companyId, role |-> role, is_primary |-> "undefined"]
            ELSE NoCompany]

\* user_company_access WHERE user_id AND is_active ORDER BY is_primary DESC:
\* the rows that can come first (the order among equals is the database's)
EcoFirstAccess(userId) ==
    LET rows == {a \in Range(user_company_access) : a.user_id = userId /\ a.is_active}
    IN  {a \in rows : a.is_primary \/ \A b \in rows : ~b.is_primary}

\* the responses the handler can give (one, but for the order of the database)
EcoSsoLaunchResponses(reqUser, targetApp, companyId) ==
    LET found == UserRows(reqUser.userId)
        user == found[1]
        access == ActiveAccess(reqUser.userId, companyId)
    IN  IF targetApp \notin TargetApps
        THEN {Fail("eco", "sso-launch", 400, "Invalid targetApp")}
        ELSE IF Len(found) # 1 THEN {Fail("eco", "sso-launch", 404, "User not found")}
        ELSE IF user.is_super_admin
        THEN {SsoResponse("eco", user, targetApp,
                          IF companyId # 0 THEN companyId
                          ELSE IF reqUser.companyId # 0 THEN reqUser.companyId ELSE 1,
                          "super_admin")}
        ELSE IF companyId # 0
        THEN IF Len(access) # 1
             THEN {[Fail("eco", "sso-launch", 403, "You do not have access to this company")
                      EXCEPT !.userId = user.id]}
             ELSE {SsoResponse("eco", user, targetApp, companyId, access[1].role)}
        ELSE IF EcoFirstAccess(user.id) # {}
        THEN {SsoResponse("eco", user, targetApp, a.company_id, a.role) :
                 a \in EcoFirstAccess(user.id)}
        ELSE {SsoResponse("eco", user, targetApp, 0, RoleOrAdmin(reqUser))}

MockSsoLaunchResponse(reqUser, targetApp, companyId) ==
    LET found == UserRows(reqUser.userId)
        user == found[1]
        access == ActiveAccess(reqUser.userId, companyId)
        active == SelectSeq(companies, LAMBDA c : c.is_active)
        accessRecords == SelectSeq(user_company_access,
                                   LAMBDA a : a.user_id = reqUser.userId /\ a.is_active)
        primaries == SelectSeq(accessRecords, LAMBDA a : a.is_primary)
        primary == IF primaries # <<>> THEN primaries[1] ELSE accessRecords[1]
    IN  IF targetApp \notin TargetApps
        THEN Fail("mock", "sso-launch", 400, "Invalid targetApp")
        ELSE IF found = <<>> THEN Fail("mock", "sso-launch", 404, "User not found")
        ELSE IF user.is_super_admin
        THEN SsoResponse("mock", user, targetApp,
                         IF companyId # 0 THEN companyId
                         ELSE IF active # <<>> THEN active[1].id ELSE 1,
                         "super_admin")
        ELSE IF companyId # 0
        THEN IF access = <<>>
             THEN [Fail("mock", "sso-launch", 403, "You do not have access to this company")
                     EXCEPT !.userId = user.id]
             ELSE SsoResponse("mock", user, targetApp, companyId, access[1].role)
        ELSE IF accessRecords # <<>>
        THEN SsoResponse("mock", user, targetApp, primary.company_id, primary.role)
        ELSE SsoResponse("mock", user, targetApp, 0, RoleOrAdmin(reqUser))

-----------------------------------------------------------------------------
(* Requests in flight.  A handler that makes several database calls is a    *)
(* request that advances one call at a time; pc names the call it is at and *)
(* the other fields are the request body and the handler's locals.          *)

ReqIds == {1, 2}

NoInvitation == [id |-> 0, company_id |-> 0, invitation_type |-> "null", email |-> ""]

IdleReq ==
    [op |-> "idle", pc |-> "idle",
     username |-> "", email |-> "", invitationToken |-> "", company_name |-> FALSE,
     invitation |-> NoInvitation, newUserId |-> 0, newCompanyId |-> 0,
     companyId |-> 0, userId |-> 0,
     role |-> "", is_primary |-> "undefined", is_active |-> "undefined",
     full_name |-> FALSE, new_company_id |-> 0, existing |-> FALSE, session |-> 0]

Idle(r) == reqs[r].op = "idle"

Quiescent == \A r \in ReqIds : Idle(r)

\* exclusive: the request is the only one in flight (requests one after another)
MayBegin(r, exclusive) ==
    /\ Idle(r)
    /\ exclusive => \A q \in ReqIds : Idle(q)

\* the handler sends its response and the request ends
Respond(r, response) ==
    /\ res' = [response EXCEPT !.username = reqs[r].username, !.email = reqs[r].email,
                                !.invitationToken = reqs[r].invitationToken]
    /\ reqs' = [reqs EXCEPT ![r] = IdleReq]

\* the handler goes on to its next database call
Goto(r, pc) == reqs' = [reqs EXCEPT ![r].pc = pc]

\* this.lastID of an INSERT: one more than the largest id of the table
LastId(table) ==
    IF table = <<>> THEN 1
    ELSE 1 + (CHOOSE m \in {x.id : x \in Range(table)} :
                 \A x \in Range(table) : x.id <= m)

-----------------------------------------------------------------------------
(* Spec: login and select-company of the three servers over drawn stores *)

NoResponse == Response("none", "none", 0)

UserRow(id, super, type, firm) ==
    [id |-> id, username |-> UserName(id), email |-> Email(id), password |-> "good",
     is_active |-> TRUE, is_super_admin |-> super,
     user_type |-> type, accounting_firm_id |-> firm]

\* what a server can hold about user 1: the pos has accountants of a firm, the
\* ecosystem servers have the super-admin flag
UserKinds(a) ==
    IF a = "pos"
    THEN {UserRow(1, FALSE, k[1], k[2]) :
            k \in {<<"company_user", 0>>, <<"accountant", 0>>, <<"accountant", 1>>}}
    ELSE {UserRow(1, b, "company_user", 0) : b \in BOOLEAN}

\* no token in localStorage
NoBearer == [kind |-> "none", exp |-> 0, userId |-> 0]

\* no import batch in flight
NoBatch == [pc |-> "idle", txns |-> <<>>, i |-> 0, journals |-> <<>>, rows |-> <<>>,
            aborted |-> FALSE, succeeded |-> 0]

\* no payroll period, an empty ledger and no import under way
NoBooks ==
    /\ payrollPeriods = <<>>
    /\ journals = <<>>
    /\ integration_transactions = <<>>
    /\ batches = [r \in ReqIds |-> NoBatch]

\* the Sean webapp before anyone has used it, and a client without a token
NoSean ==
    /\ sean_allowedEmail = {}
    /\ sean_user = {}
    /\ sean_session = {}
    /\ sean_issued = 0
    /\ bearer = NoBearer
    /\ logouts = <<>>
    /\ memo = NoResponse
    /\ NoBooks

CompanyStates ==
    {[is_active |-> TRUE, subscription_status |-> st] : st \in Statuses}
        \cup {[is_active |-> FALSE, subscription_status |-> st] : st \in {"active", "suspended"}}

CompanyRow(id, st) ==
    [id |-> id, is_active |-> st.is_active, subscription_status |-> st.subscription_status]

EdgeRow(u, c, role, primary, active) ==
    [user_id |-> u, company_id |-> c, role |-> role, is_primary |-> primary,
     is_active |-> active]

\* no edge, or one edge of user u into company c
EdgeChoices(u, c) ==
    {<<>>} \cup {<<EdgeRow(u, c, r, p, a)>> : r \in Roles, p \in BOOLEAN, a \in BOOLEAN}

FirmLinkChoices(a, c) ==
    IF a = "pos"
    THEN {<<>>, <<[firm_id |-> 1, company_id |-> c, is_active |-> TRUE]>>}
    ELSE {<<>>}

Init ==
    /\ server \in Apps
    /\ \E u1 \in UserKinds(server) :
          users = <<u1, UserRow(2, FALSE, "company_user", 0)>>
    /\ \E s1 \in CompanyStates, s2 \in CompanyStates :
          companies = <<CompanyRow(1, s1), CompanyRow(2, s2)>>
    /\ \E e1 \in EdgeChoices(1, 1), e2 \in EdgeChoices(1, 2) :
          user_company_access = e1 \o e2 \o <<EdgeRow(2, 2, "cashier", TRUE, TRUE)>>
    /\ \E f1 \in FirmLinkChoices(server, 1), f2 \in FirmLinkChoices(server, 2) :
          firm_company_access = f1 \o f2
    /\ invitations = <<>>
    /\ locations = <<>>
    /\ company_settings = <<>>
    /\ now = 0
    /\ NoSean
    /\ reqs = [r \in ReqIds |-> IdleReq]
    /\ res = NoResponse

store == <<users, companies, user_company_access, firm_company_access, invitations,
           locations, company_settings, now, reqs, server, elsewhere>>

EcoLogin ==
    /\ server = "eco"
    /\ \E loginId \in LoginIds, password \in Passwords :
          res' = EcoLoginResponse(loginId, password)
    /\ UNCHANGED store

EcoSelectCompany ==
    /\ server = "eco"
    /\ \E i \in 1..Len(users), companyId \in CompanyIds \cup {0} :
          res' = EcoSelectCompanyResponse(ReqUser(users[i]), companyId)
    /\ UNCHANGED store

PosLogin ==
    /\ server = "pos"
    /\ \E username \in LoginIds, password \in Passwords :
          res' = PosLoginResponse(username, password)
    /\ UNCHANGED store

PosSelectCompany ==
    /\ server = "pos"
    /\ \E i \in 1..Len(users), companyId \in CompanyIds \cup {0} :
          res' = PosSelectCompanyResponse(ReqUser(users[i]), companyId)
    /\ UNCHANGED store

MockLogin ==
    /\ server = "mock"
    /\ \E loginId \in LoginIds, password \in Passwords :
          res' = MockLoginResponse(loginId, password)
    /\ UNCHANGED store

MockSelectCompany ==
    /\ server = "mock"
    /\ \E i \in 1..Len(users), companyId \in CompanyIds \cup {0} :
          res' = MockSelectCompanyResponse(ReqUser(users[i]), companyId)
    /\ UNCHANGED store

EcoGetCompanies ==
    /\ server = "eco"
    /\ \E i \in 1..Len(users) : \E reqUser \in EcoTokens(users[i]) :
          res' = EcoCompaniesResponse(reqUser)
    /\ UNCHANGED store

MockGetCompanies ==
    /\ server = "mock"
    /\ \E i \in 1..Len(users) : \E reqUser \in MockTokens(users[i]) :
          res' = MockCompaniesResponse(reqUser)
    /\ UNCHANGED store

EcoSsoLaunch ==
    /\ server = "eco"
    /\ \E i \in 1..Len(users), targetApp \in {"pos", "other"},
          companyId \in CompanyIds \cup {0} :
          \E reqUser \in EcoTokens(users[i]) :
             res' \in EcoSsoLaunchResponses(reqUser, targetApp, companyId)
    /\ UNCHANGED store

MockSsoLaunch ==
    /\ server = "mock"
    /\ \E i \in 1..Len(users), targetApp \in {"pos", "other"},
          companyId \in CompanyIds \cup {0} :
          \E reqUser \in MockTokens(users[i]) :
             res' = MockSsoLaunchResponse(reqUser, targetApp, companyId)
    /\ UNCHANGED store

Next ==
    \/ EcoLogin
    \/ EcoSelectCompany
    \/ EcoGetCompanies
    \/ EcoSsoLaunch
    \/ PosLogin
    \/ PosSelectCompany
    \/ MockLogin
    \/ MockSelectCompany
    \/ MockGetCompanies
    \/ MockSsoLaunch

Spec == Init /\ [][Next]_vars

-----------------------------------------------------------------------------
(* What the claims speak about *)

\* the active access edges of a user, in table order
ActiveEdges(userId) ==
    SelectSeq(user_company_access, LAMBDA a : a.user_id = userId /\ a.is_active)

HasActiveEdge(userId, companyId) ==
    \E i \in 1..Len(user_company_access) :
        /\ user_company_access[i].user_id = userId
        /\ user_company_access[i].company_id = companyId
        /\ user_company_access[i].is_active

IsSuperAdmin(userId) == \E u \in Range(users) : u.id = userId /\ u.is_super_admin

CompanyActive(companyId) == \E c \in Range(companies) : c.id = companyId /\ c.is_active

StatusOf(companyId) == CHOOSE st \in Statuses :
    \E c \in Range(companies) : c.id = companyId /\ c.subscription_status = st

\* the user is an accountant of a firm that holds an active link to the company
HasFirmLink(userId, companyId) ==
    \E u \in Range(users), f \in Range(firm_company_access) :
        /\ u.id = userId /\ IsFirmAccountant(u.user_type, u.accounting_firm_id)
        /\ f.firm_id = u.accounting_firm_id /\ f.company_id = companyId /\ f.is_active

\* the user is an accountant who reaches companies through a firm
ThroughFirm(userId) ==
    \E u \in Range(users) : u.id = userId /\ IsFirmAccountant(u.user_type, u.accounting_firm_id)

SelectedCompany == res.op = "select-company" /\ res.companyId # 0
LoggedIn == res.op = "login" /\ res.status = 200

-----------------------------------------------------------------------------
(* C1 *)

-----------------------------------------------------------------------------
(* C2 *)

\* C2: a select-company naming a suspended or pending company is answered 403
\* with that status in the body, even when the caller holds an active edge.
C2_SuspendedPendingDenied ==
    (SelectedCompany /\ HasActiveEdge(res.userId, res.companyId)
        /\ CompanyActive(res.companyId)
        /\ StatusOf(res.companyId) \in {"suspended", "pending"})
        => (res.status = 403 /\ res.subscriptionStatus = StatusOf(res.companyId))

-----------------------------------------------------------------------------
(* C3 *)

\* C3: a super-admin's select-company succeeds for every active company, with or
\* without an access edge, and fails for every inactive company.
C3_SuperAdminSelects ==
    (SelectedCompany /\ IsSuperAdmin(res.userId))
        => IF CompanyActive(res.companyId)
           THEN res.status = 200 /\ res.token.companyId = res.companyId
           ELSE res.status # 200 /\ res.token = NoToken

-----------------------------------------------------------------------------
(* C4 *)

\* C4: the login of a non-super-admin user with zero or with two or more active
\* access edges returns an unscoped token, and requiresCompanySelection = true
\* when there are two or more.
C4_UnscopedUnlessOneEdge ==
    (LoggedIn /\ ~IsSuperAdmin(res.userId) /\ Len(ActiveEdges(res.userId)) # 1)
        => /\ res.token.companyId = 0
           /\ Len(ActiveEdges(res.userId)) >= 2 => res.requiresCompanySelection = "true"

-----------------------------------------------------------------------------
(* C5 *)

-----------------------------------------------------------------------------
(* pos: POST /register, one database call at a time *)

MaxUsers == 3
MaxNow == 2

Usernames == {"u1", "u2", "u3"}
Tokens == {"t1", "t2"}
Emails == {"e1", "e2"}

\* the outcomes of a database call: err is set only where storage can fail
Outcomes(faulty) == IF faulty THEN BOOLEAN ELSE {TRUE}

InFlight == {r \in ReqIds : ~Idle(r)}

NewUserRow(id, username, email, type) ==
    [id |-> id, username |-> username, email |-> email, password |-> "good",
     is_active |-> TRUE, is_super_admin |-> FALSE,
     user_type |-> type, accounting_firm_id |-> 0]

InvitationRow(id, token, company, type, used, expires) ==
    [id |-> id, token |-> token, email |-> "e3", company_id |-> company,
     invitation_type |-> type, is_used |-> used, expires_at |-> expires]

\* SELECT id FROM users WHERE username = ?
UsersByUsername(username) == SelectSeq(users, LAMBDA u : u.username = username)

\* SELECT * FROM invitations WHERE token = ? (the is_used test left out)
ValidInvitations_UsedToo(token) ==
    SelectSeq(invitations, LAMBDA i : i.token = token /\ i.expires_at > now)

\* SELECT * FROM invitations WHERE token = ? AND is_used = 0
\*   AND expires_at > CURRENT_TIMESTAMP
ValidInvitations(token) ==
    SelectSeq(invitations, LAMBDA i :
        i.token = token /\ ~i.is_used /\ i.expires_at > now)

tables == <<users, companies, user_company_access, firm_company_access, invitations,
            locations, company_settings>>

\* what no handler writes
fixed == <<firm_company_access, server, elsewhere>>

\* the request arrives; the clients of two requests in flight register
\* different usernames
PosRegisterBegin(r, exclusive, tokens) ==
    /\ server = "pos"
    /\ MayBegin(r, exclusive)
    /\ Len(users) + Cardinality(InFlight) < MaxUsers
    /\ \E username \in Usernames \ {reqs[q].username : q \in InFlight},
          email \in Emails \cup {""}, invitationToken \in tokens :
          reqs' = [reqs EXCEPT ![r] =
                      [IdleReq EXCEPT !.op = "register", !.pc = "check_username",
                                      !.username = username, !.email = email,
                                      !.invitationToken = invitationToken]]
    /\ UNCHANGED <<tables, now, res, server, elsewhere>>

PosRegisterCheckUsername(r, faulty) ==
    /\ server = "pos"
    /\ reqs[r].op = "register" /\ reqs[r].pc = "check_username"
    /\ \E ok \in Outcomes(faulty) :
          IF ~ok THEN Respond(r, Fail("pos", "register", 500, "Database error"))
          ELSE IF UsersByUsername(reqs[r].username) # <<>>
          THEN Respond(r, Fail("pos", "register", 400, "Username already exists"))
          ELSE /\ Goto(r, IF reqs[r].invitationToken # "" THEN "lookup_invitation"
                          ELSE "insert_owner")
               /\ UNCHANGED res
    /\ UNCHANGED <<tables, now, server, elsewhere>>

PosRegisterLookupInvitation(r, faulty) ==
    /\ server = "pos"
    /\ reqs[r].op = "register" /\ reqs[r].pc = "lookup_invitation"
    /\ \E ok \in Outcomes(faulty) :
          IF ~ok THEN Respond(r, Fail("pos", "register", 500, "Database error"))
          ELSE LET found == ValidInvitations(reqs[r].invitationToken) IN
               IF found = <<>>
               THEN Respond(r, Fail("pos", "register", 400, "Invalid or expired invitation"))
               ELSE /\ reqs' = [reqs EXCEPT ![r].pc = "insert_invited_user",
                                            ![r].invitation =
                                                [id |-> found[1].id,
                                                 company_id |-> found[1].company_id,
                                                 invitation_type |-> found[1].invitation_type,
                                                 email |-> found[1].email]]
                    /\ UNCHANGED res
    /\ UNCHANGED <<tables, now, server, elsewhere>>

PosRegisterInsertInvitedUser(r, faulty) ==
    /\ server = "pos"
    /\ reqs[r].op = "register" /\ reqs[r].pc = "insert_invited_user"
    /\ \E ok \in Outcomes(faulty) :
          IF ~ok
          THEN /\ Respond(r, Fail("pos", "register", 500, "Failed to create user"))
               /\ UNCHANGED users
          ELSE LET invitation == reqs[r].invitation
                   userType == IF invitation.invitation_type = "accountant"
                               THEN "accountant" ELSE "company_user"
                   email == IF reqs[r].email # "" THEN reqs[r].email ELSE invitation.email
                   newUserId == LastId(users)
               IN /\ users' = Append(users,
                                  NewUserRow(newUserId, reqs[r].username, email, userType))
                  /\ reqs' = [reqs EXCEPT ![r].pc = "insert_invited_edge",
                                          ![r].newUserId = newUserId]
                  /\ UNCHANGED res
    /\ UNCHANGED <<companies, user_company_access, invitations, locations,
                   company_settings, now, fixed>>

PosRegisterInsertInvitedEdge(r, faulty) ==
    /\ server = "pos"
    /\ reqs[r].op = "register" /\ reqs[r].pc = "insert_invited_edge"
    /\ \E ok \in Outcomes(faulty) :
          IF ~ok
          THEN /\ Respond(r, [Fail("pos", "register", 500, "Failed to link user to company")
                                 EXCEPT !.newUserId = reqs[r].newUserId])
               /\ UNCHANGED user_company_access
          ELSE /\ user_company_access' =
                     Append(user_company_access,
                            EdgeRow(reqs[r].newUserId, reqs[r].invitation.company_id,
                                    reqs[r].invitation.invitation_type, TRUE, TRUE))
               /\ Goto(r, "mark_used")
               /\ UNCHANGED res
    /\ UNCHANGED <<users, companies, invitations, locations, company_settings, now, fixed>>

\* the error of the UPDATE is only logged: the answer is the same
PosRegisterMarkUsed(r, faulty) ==
    /\ server = "pos"
    /\ reqs[r].op = "register" /\ reqs[r].pc = "mark_used"
    /\ \E ok \in Outcomes(faulty) :
          invitations' =
              IF ~ok THEN invitations
              ELSE [i \in 1..Len(invitations) |->
                      IF invitations[i].id = reqs[r].invitation.id
                      THEN [invitations[i] EXCEPT !.is_used = TRUE]
                      ELSE invitations[i]]
    /\ Respond(r, [Response("pos", "register", 200) EXCEPT
                      !.userId = reqs[r].newUserId, !.newUserId = reqs[r].newUserId])
    /\ UNCHANGED <<users, companies, user_company_access, locations, company_settings,
                   now, fixed>>

\* time passes
Tick ==
    /\ now < MaxNow
    /\ now' = now + 1
    /\ UNCHANGED <<tables, reqs, res, server, elsewhere>>

-----------------------------------------------------------------------------
(* SpecInvite: registrations with an invitation, one after another;         *)
(* SpecInviteRace: the same registrations, concurrently                     *)

Owner == UserRow(1, FALSE, "company_user", 0)

InitInvite ==
    /\ server = "pos"
    /\ users = <<Owner>>
    /\ companies = <<CompanyRow(1, [is_active |-> TRUE, subscription_status |-> "active"]),
                     CompanyRow(2, [is_active |-> TRUE, subscription_status |-> "active"])>>
    /\ user_company_access = <<EdgeRow(1, 1, "business_owner", TRUE, TRUE),
                               EdgeRow(1, 2, "business_owner", FALSE, TRUE)>>
    /\ firm_company_access = <<>>
    /\ locations = <<>>
    /\ company_settings = <<>>
    /\ \E used \in BOOLEAN, e1 \in 0..MaxNow, e2 \in 0..MaxNow :
          invitations = <<InvitationRow(1, "t1", 1, "cashier", FALSE, e1),
                          InvitationRow(2, "t2", 2, "accountant", used, e2)>>
    /\ now = 0
    /\ NoSean
    /\ reqs = [r \in ReqIds |-> IdleReq]
    /\ res = NoResponse

RegisterInvited(exclusive) ==
    \/ \E r \in ReqIds : PosRegisterBegin(r, exclusive, Tokens \cup {"t0"})
    \/ \E r \in ReqIds : PosRegisterCheckUsername(r, FALSE)
    \/ \E r \in ReqIds : PosRegisterLookupInvitation(r, FALSE)
    \/ \E r \in ReqIds : PosRegisterInsertInvitedUser(r, FALSE)
    \/ \E r \in ReqIds : PosRegisterInsertInvitedEdge(r, FALSE)
    \/ \E r \in ReqIds : PosRegisterMarkUsed(r, FALSE)
    \/ Tick

NextInvite == RegisterInvited(TRUE)

SpecInvite == InitInvite /\ [][NextInvite]_vars

NextInviteRace == RegisterInvited(FALSE)

SpecInviteRace == InitInvite /\ [][NextInviteRace]_vars

\* the accounts an invitation has given: the users other than the owner with
\* an edge into the invitation's company
AccountsOf(inv) ==
    {a.user_id : a \in {e \in Range(user_company_access) :
                           e.company_id = inv.company_id /\ e.user_id # Owner.id}}

Redeemable(token) ==
    \E inv \in Range(invitations) :
        inv.token = token /\ ~inv.is_used /\ inv.expires_at > now

C8_OneRedemption ==
    \A inv \in Range(invitations) :
        Cardinality({u \in Range(users) :
                        /\ u.id # Owner.id
                        /\ \E e \in Range(user_company_access) :
                              e.user_id = u.id /\ e.company_id = inv.company_id}) <= 1

-----------------------------------------------------------------------------
(* pos: POST /register without an invitation (self-registration of a        *)
(* business owner with a default company)                                   *)


\* a company row as the INSERTs of the handlers leave it (is_active is the
\* column default)
NewCompanyRow(id, status) ==
    [id |-> id, is_active |-> TRUE, subscription_status |-> status]

PosRegisterInsertOwner(r, faulty) ==
    /\ server = "pos"
    /\ reqs[r].op = "register" /\ reqs[r].pc = "insert_owner"
    /\ \E ok \in Outcomes(faulty) :
          IF ~ok
          THEN /\ Respond(r, Fail("pos", "register", 500, "Failed to create user"))
               /\ UNCHANGED users
          ELSE LET newUserId == LastId(users) IN
               /\ users' = Append(users, NewUserRow(newUserId, reqs[r].username,
                                                    reqs[r].email, "business_owner"))
               /\ reqs' = [reqs EXCEPT ![r].pc = "insert_company",
                                       ![r].newUserId = newUserId]
               /\ UNCHANGED res
    /\ UNCHANGED <<companies, user_company_access, invitations, locations,
                   company_settings, now, fixed>>

PosRegisterInsertCompany(r, faulty) ==
    /\ server = "pos"
    /\ reqs[r].op = "register" /\ reqs[r].pc = "insert_company"
    /\ \E ok \in Outcomes(faulty) :
          IF ~ok
          THEN /\ Respond(r, [Fail("pos", "register", 500, "Failed to create company")
                                 EXCEPT !.newUserId = reqs[r].newUserId])
               /\ UNCHANGED companies
          ELSE LET newCompanyId == LastId(companies) IN
               /\ companies' = Append(companies, NewCompanyRow(newCompanyId, "active"))
               /\ reqs' = [reqs EXCEPT ![r].pc = "insert_owner_edge",
                                       ![r].newCompanyId = newCompanyId]
               /\ UNCHANGED res
    /\ UNCHANGED <<users, user_company_access, invitations, locations,
                   company_settings, now, fixed>>

PosRegisterInsertOwnerEdge(r, faulty) ==
    /\ server = "pos"
    /\ reqs[r].op = "register" /\ reqs[r].pc = "insert_owner_edge"
    /\ \E ok \in Outcomes(faulty) :
          IF ~ok
          THEN /\ Respond(r, [Fail("pos", "register", 500, "Failed to link user to company")
                                 EXCEPT !.newUserId = reqs[r].newUserId,
                                        !.newCompanyId = reqs[r].newCompanyId])
               /\ UNCHANGED user_company_access
          ELSE /\ user_company_access' =
                     Append(user_company_access,
                            EdgeRow(reqs[r].newUserId, reqs[r].newCompanyId,
                                    "business_owner", TRUE, TRUE))
               /\ Respond(r, [Response("pos", "register", 200) EXCEPT
                                 !.userId = reqs[r].newUserId,
                                 !.companyId = reqs[r].newCompanyId,
                                 !.newUserId = reqs[r].newUserId,
                                 !.newCompanyId = reqs[r].newCompanyId])
    /\ UNCHANGED <<users, companies, invitations, locations, company_settings, now, fixed>>

-----------------------------------------------------------------------------
(* pos: POST /register-company (public signup, the company starts pending) *)

\* SELECT id FROM users WHERE username = ? OR email = ?
UsersByUsernameOrEmail(username, email) ==
    SelectSeq(users, LAMBDA u : u.username = username \/ u.email = email)

PosRegisterCompanyBegin(r, exclusive) ==
    /\ server = "pos"
    /\ MayBegin(r, exclusive)
    /\ Len(users) + Cardinality(InFlight) < MaxUsers
    /\ \E username \in Usernames \ {reqs[q].username : q \in InFlight},
          email \in Emails :
          reqs' = [reqs EXCEPT ![r] =
                      [IdleReq EXCEPT !.op = "register-company", !.pc = "check_existing",
                                      !.username = username, !.email = email,
                                      !.company_name = TRUE]]
    /\ UNCHANGED <<tables, now, res, server, elsewhere>>

PosRegisterCompanyCheck(r, faulty) ==
    /\ reqs[r].op = "register-company" /\ reqs[r].pc = "check_existing"
    /\ \E ok \in Outcomes(faulty) :
          IF ~ok THEN Respond(r, Fail("pos", "register-company", 500, "Database error"))
          ELSE IF UsersByUsernameOrEmail(reqs[r].username, reqs[r].email) # <<>>
          THEN Respond(r, Fail("pos", "register-company", 409,
                               "Username or email already registered"))
          ELSE Goto(r, "insert_user") /\ UNCHANGED res
    /\ UNCHANGED <<tables, now, server, elsewhere>>

PosRegisterCompanyInsertUser(r, faulty) ==
    /\ reqs[r].op = "register-company" /\ reqs[r].pc = "insert_user"
    /\ \E ok \in Outcomes(faulty) :
          IF ~ok
          THEN /\ Respond(r, Fail("pos", "register-company", 500, "Failed to create user"))
               /\ UNCHANGED users
          ELSE LET newUserId == LastId(users) IN
               /\ users' = Append(users, NewUserRow(newUserId, reqs[r].username,
                                                    reqs[r].email, "business_owner"))
               /\ reqs' = [reqs EXCEPT ![r].pc = "insert_company",
                                       ![r].newUserId = newUserId]
               /\ UNCHANGED res
    /\ UNCHANGED <<companies, user_company_access, invitations, locations,
                   company_settings, now, fixed>>

PosRegisterCompanyInsertCompany(r, faulty) ==
    /\ reqs[r].op = "register-company" /\ reqs[r].pc = "insert_company"
    /\ \E ok \in Outcomes(faulty) :
          IF ~ok
          THEN /\ Respond(r, [Fail("pos", "register-company", 500, "Failed to create company")
                                 EXCEPT !.newUserId = reqs[r].newUserId])
               /\ UNCHANGED companies
          ELSE LET newCompanyId == LastId(companies) IN
               /\ companies' = Append(companies, NewCompanyRow(newCompanyId, "pending"))
               /\ reqs' = [reqs EXCEPT ![r].pc = "insert_edge",
                                       ![r].newCompanyId = newCompanyId]
               /\ UNCHANGED res
    /\ UNCHANGED <<users, user_company_access, invitations, locations,
                   company_settings, now, fixed>>

\* the error of the edge INSERT is only logged; its callback queues the two
\* default rows and answers 201 at once
PosRegisterCompanyInsertEdge(r, faulty) ==
    /\ reqs[r].op = "register-company" /\ reqs[r].pc = "insert_edge"
    /\ \E ok \in Outcomes(faulty) :
          user_company_access' =
              IF ~ok THEN user_company_access
              ELSE Append(user_company_access,
                          EdgeRow(reqs[r].newUserId, reqs[r].newCompanyId,
                                  "business_owner", TRUE, TRUE))
    /\ res' = [Response("pos", "register-company", 201) EXCEPT
                  !.username = reqs[r].username, !.email = reqs[r].email,
                  !.userId = reqs[r].newUserId, !.companyId = reqs[r].newCompanyId,
                  !.newUserId = reqs[r].newUserId,
                  !.newCompanyId = reqs[r].newCompanyId,
                  !.subscriptionStatus = "pending"]
    /\ Goto(r, "insert_location")
    /\ UNCHANGED <<users, companies, invitations, locations, company_settings, now, fixed>>

PosRegisterCompanyInsertLocation(r, faulty) ==
    /\ reqs[r].op = "register-company" /\ reqs[r].pc = "insert_location"
    /\ \E ok \in Outcomes(faulty) :
          locations' =
              IF ~ok THEN locations
              ELSE Append(locations, [company_id |-> reqs[r].newCompanyId,
                                      location_code |-> "STORE-001"])
    /\ Goto(r, "insert_settings")
    /\ UNCHANGED <<users, companies, user_company_access, invitations,
                   company_settings, now, res, fixed>>

PosRegisterCompanyInsertSettings(r, faulty) ==
    /\ reqs[r].op = "register-company" /\ reqs[r].pc = "insert_settings"
    /\ \E ok \in Outcomes(faulty) :
          company_settings' =
              IF ~ok THEN company_settings
              ELSE Append(company_settings, [company_id |-> reqs[r].newCompanyId])
    /\ reqs' = [reqs EXCEPT ![r] = IdleReq]
    /\ UNCHANGED <<users, companies, user_company_access, invitations, locations,
                   now, res, fixed>>

-----------------------------------------------------------------------------
(* eco: POST /register (new user, and a company when company_name is given) *)

EcoRegisterBegin(r, exclusive) ==
    /\ server = "eco"
    /\ MayBegin(r, exclusive)
    /\ Len(users) + Cardinality(InFlight) < MaxUsers
    /\ \E username \in Usernames \ {reqs[q].username : q \in InFlight},
          email \in Emails, company_name \in BOOLEAN :
          reqs' = [reqs EXCEPT ![r] =
                      [IdleReq EXCEPT !.op = "register", !.pc = "check_existing",
                                      !.username = username, !.email = email,
                                      !.company_name = company_name]]
    /\ UNCHANGED <<tables, now, res, server, elsewhere>>

\* the error of the lookup is not read: existing is then null and the handler
\* goes on
EcoRegisterCheck(r, faulty) ==
    /\ server = "eco"
    /\ reqs[r].op = "register" /\ reqs[r].pc = "check_existing"
    /\ \E ok \in Outcomes(faulty) :
          LET existing == IF ok
                          THEN UsersByUsernameOrEmail(reqs[r].username, reqs[r].email)
                          ELSE <<>>
          IN IF Len(existing) > 0
             THEN Respond(r, Fail("eco", "register", 409,
                                  "Username or email already registered"))
             ELSE Goto(r, "insert_user") /\ UNCHANGED res
    /\ UNCHANGED <<tables, now, server, elsewhere>>

EcoRegisterToken(r, companyId) ==
    [NoToken EXCEPT !.userId = reqs[r].newUserId, !.username = reqs[r].username,
                    !.companyId = companyId,
                    !.role = IF companyId # 0 THEN "business_owner" ELSE "null",
                    !.isSuperAdmin = "undefined", !.expiresIn = 8]

EcoRegisterResponse(r, companyId) ==
    [Response("eco", "register", 201) EXCEPT
        !.token = EcoRegisterToken(r, companyId),
        !.userId = reqs[r].newUserId, !.companyId = companyId,
        !.newUserId = reqs[r].newUserId, !.newCompanyId = reqs[r].newCompanyId]

EcoRegisterInsertUser(r, faulty) ==
    /\ server = "eco"
    /\ reqs[r].op = "register" /\ reqs[r].pc = "insert_user"
    /\ \E ok \in Outcomes(faulty) :
          IF ~ok
          THEN /\ Respond(r, Fail("eco", "register", 500, "Failed to create user"))
               /\ UNCHANGED users
          ELSE LET newUserId == LastId(users)
                   created == [reqs EXCEPT ![r].newUserId = newUserId]
               IN /\ users' = Append(users, NewUserRow(newUserId, reqs[r].username,
                                                       reqs[r].email, "company_user"))
                  /\ IF reqs[r].company_name
                     THEN /\ reqs' = [created EXCEPT ![r].pc = "insert_company"]
                          /\ UNCHANGED res
                     ELSE /\ res' = [Response("eco", "register", 201) EXCEPT
                                        !.token = [EcoRegisterToken(r, 0) EXCEPT
                                                      !.userId = newUserId],
                                        !.username = reqs[r].username,
                                        !.email = reqs[r].email,
                                        !.userId = newUserId, !.newUserId = newUserId]
                          /\ reqs' = [reqs EXCEPT ![r] = IdleReq]
    /\ UNCHANGED <<companies, user_company_access, invitations, locations,
                   company_settings, now, fixed>>

\* a failed company INSERT leaves company null and the handler answers 201
EcoRegisterInsertCompany(r, faulty) ==
    /\ server = "eco"
    /\ reqs[r].op = "register" /\ reqs[r].pc = "insert_company"
    /\ \E ok \in Outcomes(faulty) :
          IF ~ok
          THEN /\ Respond(r, EcoRegisterResponse(r, 0))
               /\ UNCHANGED companies
          ELSE LET newCompanyId == LastId(companies) IN
               /\ companies' = Append(companies, NewCompanyRow(newCompanyId, "active"))
               /\ reqs' = [reqs EXCEPT ![r].pc = "insert_edge",
                                       ![r].newCompanyId = newCompanyId]
               /\ UNCHANGED res
    /\ UNCHANGED <<users, user_company_access, invitations, locations,
                   company_settings, now, fixed>>

\* the result of the edge INSERT is not read
EcoRegisterInsertEdge(r, faulty) ==
    /\ server = "eco"
    /\ reqs[r].op = "register" /\ reqs[r].pc = "insert_edge"
    /\ \E ok \in Outcomes(faulty) :
          user_company_access' =
              IF ~ok THEN user_company_access
              ELSE Append(user_company_access,
                          EdgeRow(reqs[r].newUserId, reqs[r].newCompanyId,
                                  "business_owner", TRUE, TRUE))
    /\ Respond(r, EcoRegisterResponse(r, reqs[r].newCompanyId))
    /\ UNCHANGED <<users, companies, invitations, locations, company_settings, now, fixed>>

-----------------------------------------------------------------------------
(* SpecRegister: the registrations of the pos and of the ecosystem server, *)
(* one after another, storage never failing                                 *)

SeededStore(apps) ==
    /\ server \in apps
    /\ users = <<Owner>>
    /\ companies = <<NewCompanyRow(1, "active")>>
    /\ user_company_access = <<EdgeRow(1, 1, "business_owner", TRUE, TRUE)>>
    /\ firm_company_access = <<>>
    /\ invitations = <<>>
    /\ locations = <<>>
    /\ company_settings = <<>>
    /\ now = 0
    /\ NoSean
    /\ reqs = [r \in ReqIds |-> IdleReq]
    /\ res = NoResponse

InitRegister == SeededStore({"pos", "eco"})

PosSelfRegister(exclusive, faulty) ==
    \/ \E r \in ReqIds : PosRegisterBegin(r, exclusive, {""})
    \/ \E r \in ReqIds : PosRegisterCheckUsername(r, faulty)
    \/ \E r \in ReqIds : PosRegisterInsertOwner(r, faulty)
    \/ \E r \in ReqIds : PosRegisterInsertCompany(r, faulty)
    \/ \E r \in ReqIds : PosRegisterInsertOwnerEdge(r, faulty)

PosRegisterCompany(exclusive, faulty) ==
    \/ \E r \in ReqIds : PosRegisterCompanyBegin(r, exclusive)
    \/ \E r \in ReqIds : PosRegisterCompanyCheck(r, faulty)
    \/ \E r \in ReqIds : PosRegisterCompanyInsertUser(r, faulty)
    \/ \E r \in ReqIds : PosRegisterCompanyInsertCompany(r, faulty)
    \/ \E r \in ReqIds : PosRegisterCompanyInsertEdge(r, faulty)
    \/ \E r \in ReqIds : PosRegisterCompanyInsertLocation(r, faulty)
    \/ \E r \in ReqIds : PosRegisterCompanyInsertSettings(r, faulty)

EcoRegister(exclusive, faulty) ==
    \/ \E r \in ReqIds : EcoRegisterBegin(r, exclusive)
    \/ \E r \in ReqIds : EcoRegisterCheck(r, faulty)
    \/ \E r \in ReqIds : EcoRegisterInsertUser(r, faulty)
    \/ \E r \in ReqIds : EcoRegisterInsertCompany(r, faulty)
    \/ \E r \in ReqIds : EcoRegisterInsertEdge(r, faulty)

NextRegister ==
    \/ PosSelfRegister(TRUE, FALSE)
    \/ PosRegisterCompany(TRUE, FALSE)
    \/ EcoRegister(TRUE, FALSE)

SpecRegister == InitRegister /\ [][NextRegister]_vars

\* the last registration asked for a username or an email that another user
\* row carries
AlreadyInUse ==
    /\ res.op \in {"register", "register-company"}
    /\ \E u \in Range(users) :
          /\ u.id # res.newUserId
          /\ \/ u.username = res.username
             \/ res.email # "" /\ u.email = res.email

\* C9: a registration with a username or an email that is already in use is
\* answered 409 and creates no user row and no company row.
C9_Conflict ==
    (Quiescent /\ AlreadyInUse)
        => res.status = 409 /\ res.newUserId = 0 /\ res.newCompanyId = 0

-----------------------------------------------------------------------------
(* lorenco: POST /api/company, in one database transaction *)

MaxCompanies == 3

\* nextval of the id sequence: an id no committed and no staged row carries
LorencoNextId ==
    LET taken == {c.id : c \in Range(companies)}
                    \cup {reqs[q].newCompanyId : q \in ReqIds}
    IN 1 + (CHOOSE m \in taken : \A x \in taken : x <= m)

\* BEGIN
LorencoCreateBegin(r, exclusive) ==
    /\ server = "lorenco"
    /\ MayBegin(r, exclusive)
    /\ Len(companies) + Cardinality(InFlight) < MaxCompanies
    /\ reqs' = [reqs EXCEPT ![r] =
                   [IdleReq EXCEPT !.op = "create-company", !.pc = "insert_company",
                                   !.company_name = TRUE]]
    /\ UNCHANGED <<tables, now, res, server, elsewhere>>

\* ROLLBACK in the catch block: what the transaction staged is dropped
LorencoRollback(r) ==
    Respond(r, Fail("lorenco", "create-company", 500, "Failed to create company"))

\* INSERT INTO companies ... RETURNING id, staged until COMMIT
LorencoInsertCompany(r, faulty) ==
    /\ reqs[r].op = "create-company" /\ reqs[r].pc = "insert_company"
    /\ \E ok \in Outcomes(faulty) :
          IF ~ok THEN LorencoRollback(r)
          ELSE /\ reqs' = [reqs EXCEPT ![r].pc = "insert_user_company",
                                       ![r].newCompanyId = LorencoNextId]
               /\ UNCHANGED res
    /\ UNCHANGED <<tables, now, server, elsewhere>>

\* INSERT INTO user_companies, staged until COMMIT
LorencoInsertUserCompany(r, faulty) ==
    /\ reqs[r].op = "create-company" /\ reqs[r].pc = "insert_user_company"
    /\ \E ok \in Outcomes(faulty) :
          IF ~ok THEN LorencoRollback(r)
          ELSE Goto(r, "commit") /\ UNCHANGED res
    /\ UNCHANGED <<tables, now, server, elsewhere>>

\* COMMIT: the two staged rows become visible together
LorencoCommit(r, faulty) ==
    /\ reqs[r].op = "create-company" /\ reqs[r].pc = "commit"
    /\ \E ok \in Outcomes(faulty) :
          IF ~ok
          THEN /\ LorencoRollback(r)
               /\ UNCHANGED <<companies, user_company_access>>
          ELSE /\ companies' = Append(companies,
                                      NewCompanyRow(reqs[r].newCompanyId, "active"))
               /\ user_company_access' =
                     Append(user_company_access,
                            EdgeRow(Owner.id, reqs[r].newCompanyId, "ADMIN", FALSE, TRUE))
               /\ Respond(r, [Response("lorenco", "create-company", 201) EXCEPT
                                 !.companyId = reqs[r].newCompanyId,
                                 !.newCompanyId = reqs[r].newCompanyId])
    /\ UNCHANGED <<users, invitations, locations, company_settings, now, fixed>>

LorencoCreateCompany(exclusive, faulty) ==
    \/ \E r \in ReqIds : LorencoCreateBegin(r, exclusive)
    \/ \E r \in ReqIds : LorencoInsertCompany(r, faulty)
    \/ \E r \in ReqIds : LorencoInsertUserCompany(r, faulty)
    \/ \E r \in ReqIds : LorencoCommit(r, faulty)

-----------------------------------------------------------------------------
(* SpecCreate: the operations that create a company with its creator's     *)
(* access edge, one after another, over a storage whose calls can fail      *)

InitCreate == SeededStore({"pos", "eco", "lorenco"})

NextCreate ==
    \/ PosSelfRegister(TRUE, TRUE)
    \/ PosRegisterCompany(TRUE, TRUE)
    \/ EcoRegister(TRUE, TRUE)
    \/ LorencoCreateCompany(TRUE, TRUE)

SpecCreate == InitCreate /\ [][NextCreate]_vars

EdgesInto(companyId) ==
    {e \in Range(user_company_access) : e.company_id = companyId}

\* C10: creating a company with its default access edge is all-or-nothing:
\* once the requests have ended, also after a storage failure in the middle
\* of one, no company row is left without an access edge.
C10_AllOrNothing ==
    Quiescent => \A c \in Range(companies) : EdgesInto(c.id) # {}

-----------------------------------------------------------------------------
(* pos: the handlers that write access edges of existing users *)

MaxEdges == 3

CallerRoles == {"business_owner", "cashier"}
\* the user whose edges the requests write
EdgeUserIds == {2}
EdgeRoles == {"admin"}
Flags == {"undefined", "true", "false"}
PrimaryFlags == {"undefined", "true"}

\* whether the token of the caller carries isSuperAdmin: true
SuperAdminFlags == {"true", "undefined"}

\* req.user as the authentication middleware attaches it: the claims of the
\* token of user 1, scoped to company 1
Identity(role, isSuperAdmin) ==
    [NoToken EXCEPT !.userId = 1, !.companyId = 1, !.role = role,
                    !.isSuperAdmin = isSuperAdmin]

\* req.user.role may manage users
MayManageUsers(role) ==
    role \in {"business_owner", "corporate_admin", "store_manager", "admin"}

\* the rows of user_company_access WHERE user_id = ? AND company_id = ?
EdgesOf(userId, companyId) ==
    SelectSeq(user_company_access,
              LAMBDA e : e.user_id = userId /\ e.company_id = companyId)

\* UPDATE user_company_access SET ... WHERE user_id = ? AND company_id = ?
UpdateEdges(userId, companyId, set(_)) ==
    [i \in 1..Len(user_company_access) |->
        IF /\ user_company_access[i].user_id = userId
           /\ user_company_access[i].company_id = companyId
        THEN set(user_company_access[i])
        ELSE user_company_access[i]]

\* COALESCE(?, column) of a flag of the request body
Coalesce(flag, column) == IF flag = "undefined" THEN column ELSE flag = "true"

\* PUT /companies/:companyId/users/:userId
PosUpsertBegin(r, exclusive) ==
    /\ server = "pos"
    /\ MayBegin(r, exclusive)
    /\ Len(user_company_access) + Cardinality(InFlight) < MaxEdges
    /\ \E callerRole \in CallerRoles, isSuperAdmin \in SuperAdminFlags,
          companyId \in CompanyIds, userId \in EdgeUserIds,
          role \in EdgeRoles, is_primary \in PrimaryFlags, is_active \in Flags :
          IF ~MayManageUsers(callerRole)
          THEN /\ res' = [Fail("pos", "upsert-access", 403, "Insufficient permissions")
                             EXCEPT !.identity = Identity(callerRole, isSuperAdmin)]
               /\ UNCHANGED reqs
          ELSE /\ reqs' = [reqs EXCEPT ![r] =
                              [IdleReq EXCEPT !.op = "upsert-access", !.pc = "get_existing",
                                              !.companyId = companyId, !.userId = userId,
                                              !.role = role, !.is_primary = is_primary,
                                              !.is_active = is_active]]
               /\ UNCHANGED res
    /\ UNCHANGED <<tables, now, server, elsewhere>>

PosUpsertGetExisting(r, faulty) ==
    /\ reqs[r].op = "upsert-access" /\ reqs[r].pc = "get_existing"
    /\ \E ok \in Outcomes(faulty) :
          IF ~ok THEN Respond(r, Fail("pos", "upsert-access", 500, "Database error"))
          ELSE /\ reqs' = [reqs EXCEPT
                              ![r].existing = EdgesOf(reqs[r].userId, reqs[r].companyId) # <<>>,
                              ![r].pc = IF EdgesOf(reqs[r].userId, reqs[r].companyId) # <<>>
                                        THEN "update" ELSE "insert"]
               /\ UNCHANGED res
    /\ UNCHANGED <<tables, now, server, elsewhere>>

PosUpsertUpdate(r, faulty) ==
    /\ reqs[r].op = "upsert-access" /\ reqs[r].pc = "update"
    /\ \E ok \in Outcomes(faulty) :
          IF ~ok
          THEN /\ Respond(r, Fail("pos", "upsert-access", 500,
                                  "Failed to update user company access"))
               /\ UNCHANGED user_company_access
          ELSE /\ user_company_access' =
                     UpdateEdges(reqs[r].userId, reqs[r].companyId,
                                 LAMBDA e : [e EXCEPT
                                     !.role = reqs[r].role,
                                     !.is_primary = Coalesce(reqs[r].is_primary, e.is_primary),
                                     !.is_active = Coalesce(reqs[r].is_active, e.is_active)])
               /\ Respond(r, [Response("pos", "upsert-access", 200) EXCEPT
                                 !.userId = reqs[r].userId, !.companyId = reqs[r].companyId])
    /\ UNCHANGED <<users, companies, invitations, locations, company_settings, now, fixed>>

PosUpsertInsert(r, faulty) ==
    /\ reqs[r].op = "upsert-access" /\ reqs[r].pc = "insert"
    /\ \E ok \in Outcomes(faulty) :
          IF ~ok
          THEN /\ Respond(r, Fail("pos", "upsert-access", 500,
                                  "Failed to create user company access"))
               /\ UNCHANGED user_company_access
          ELSE /\ user_company_access' =
                     Append(user_company_access,
                            EdgeRow(reqs[r].userId, reqs[r].companyId, reqs[r].role,
                                    reqs[r].is_primary = "true",
                                    reqs[r].is_active # "false"))
               /\ Respond(r, [Response("pos", "upsert-access", 200) EXCEPT
                                 !.userId = reqs[r].userId, !.companyId = reqs[r].companyId])
    /\ UNCHANGED <<users, companies, invitations, locations, company_settings, now, fixed>>

\* DELETE /companies/:companyId/users/:userId (one statement)
PosRemoveUser(exclusive, faulty) ==
    /\ server = "pos"
    /\ exclusive => Quiescent
    /\ \E callerRole \in CallerRoles, companyId \in CompanyIds, userId \in EdgeUserIds,
          ok \in Outcomes(faulty) :
          IF callerRole \notin {"business_owner", "corporate_admin"}
          THEN /\ res' = Fail("pos", "remove-user", 403, "Insufficient permissions")
               /\ UNCHANGED user_company_access
          ELSE IF ~ok
          THEN /\ res' = Fail("pos", "remove-user", 500, "Database error")
               /\ UNCHANGED user_company_access
          ELSE IF EdgesOf(userId, companyId) = <<>>
          THEN /\ res' = Fail("pos", "remove-user", 404, "User not found in this company")
               /\ UNCHANGED user_company_access
          ELSE /\ user_company_access' =
                     UpdateEdges(userId, companyId, LAMBDA e : [e EXCEPT !.is_active = FALSE])
               /\ res' = [Response("pos", "remove-user", 200) EXCEPT
                             !.userId = userId, !.companyId = companyId]
    /\ UNCHANGED <<users, companies, invitations, locations, company_settings, now,
                   reqs, fixed>>

\* PUT /companies/:companyId/users/:userId/edit.  The request body carries
\* full_name or not (the UPDATE of users), a role or not, and new_company_id
\* or not.
PosEditBegin(r, exclusive) ==
    /\ server = "pos"
    /\ MayBegin(r, exclusive)
    /\ \E callerRole \in CallerRoles, callerCompanyId \in CompanyIds,
          companyId \in CompanyIds, userId \in EdgeUserIds, full_name \in BOOLEAN,
          role \in EdgeRoles \cup {""}, new_company_id \in CompanyIds \cup {0} :
          IF ~MayManageUsers(callerRole)
          THEN /\ res' = Fail("pos", "edit-user", 403,
                              "Insufficient permissions - only admins can edit users")
               /\ UNCHANGED reqs
          ELSE IF callerCompanyId # companyId
          THEN /\ res' = Fail("pos", "edit-user", 403,
                              "Cannot edit users from other companies")
               /\ UNCHANGED reqs
          ELSE /\ reqs' = [reqs EXCEPT ![r] =
                              [IdleReq EXCEPT !.op = "edit-user", !.pc = "find_user",
                                              !.companyId = companyId, !.userId = userId,
                                              !.full_name = full_name, !.role = role,
                                              !.new_company_id = new_company_id]]
               /\ UNCHANGED res
    /\ UNCHANGED <<tables, now, server, elsewhere>>

\* SELECT ... FROM users u JOIN user_company_access uca ...
\*   WHERE u.id = ? AND uca.company_id = ?
PosEditFindUser(r, faulty) ==
    /\ reqs[r].op = "edit-user" /\ reqs[r].pc = "find_user"
    /\ \E ok \in Outcomes(faulty) :
          IF ~ok THEN Respond(r, Fail("pos", "edit-user", 500, "Database error"))
          ELSE IF \/ UserRows(reqs[r].userId) = <<>>
                  \/ EdgesOf(reqs[r].userId, reqs[r].companyId) = <<>>
          THEN Respond(r, Fail("pos", "edit-user", 404, "User not found in this company"))
          ELSE IF reqs[r].full_name THEN Goto(r, "update_user") /\ UNCHANGED res
          ELSE IF reqs[r].role # "" THEN Goto(r, "update_role_only") /\ UNCHANGED res
          ELSE Respond(r, Fail("pos", "edit-user", 400, "No changes provided"))
    /\ UNCHANGED <<tables, now, server, elsewhere>>

\* UPDATE users SET full_name = ?; its callback queues the role update and the
\* reassignment and answers 200 at once
PosEditUpdateUser(r, faulty) ==
    /\ reqs[r].op = "edit-user" /\ reqs[r].pc = "update_user"
    /\ \E ok \in Outcomes(faulty) :
          IF ~ok THEN Respond(r, Fail("pos", "edit-user", 500, "Failed to update user"))
          ELSE /\ res' = [Response("pos", "edit-user", 200) EXCEPT
                             !.userId = reqs[r].userId, !.companyId = reqs[r].companyId,
                             !.role = reqs[r].role]
               /\ IF reqs[r].role # "" THEN Goto(r, "update_role")
                  ELSE IF /\ reqs[r].new_company_id # 0
                          /\ reqs[r].new_company_id # reqs[r].companyId
                  THEN Goto(r, "reassign")
                  ELSE reqs' = [reqs EXCEPT ![r] = IdleReq]
    /\ UNCHANGED <<tables, now, server, elsewhere>>

\* UPDATE user_company_access SET role = ?; the error is only logged
PosEditUpdateRole(r, faulty) ==
    /\ reqs[r].op = "edit-user" /\ reqs[r].pc = "update_role"
    /\ \E ok \in Outcomes(faulty) :
          user_company_access' =
              IF ~ok THEN user_company_access
              ELSE UpdateEdges(reqs[r].userId, reqs[r].companyId,
                               LAMBDA e : [e EXCEPT !.role = reqs[r].role])
    /\ IF reqs[r].new_company_id # 0 /\ reqs[r].new_company_id # reqs[r].companyId
       THEN Goto(r, "reassign")
       ELSE reqs' = [reqs EXCEPT ![r] = IdleReq]
    /\ UNCHANGED <<users, companies, invitations, locations, company_settings, now,
                   res, fixed>>

\* the outcomes of an UPDATE that moves an edge onto a pair that has one: the
\* statement carries no guard, so it is applied unless a UNIQUE index of the
\* table, whose schema the repository does not hold, rejects it
MoveOutcomes(userId, companyId, faulty) ==
    IF faulty \/ EdgesOf(userId, companyId) # <<>> THEN BOOLEAN ELSE {TRUE}

\* UPDATE user_company_access SET company_id = ?; the error is only logged
PosEditReassign(r, faulty) ==
    /\ reqs[r].op = "edit-user" /\ reqs[r].pc = "reassign"
    /\ \E ok \in MoveOutcomes(reqs[r].userId, reqs[r].new_company_id, faulty) :
          user_company_access' =
              IF ~ok THEN user_company_access
              ELSE UpdateEdges(reqs[r].userId, reqs[r].companyId,
                               LAMBDA e : [e EXCEPT !.company_id = reqs[r].new_company_id])
    /\ reqs' = [reqs EXCEPT ![r] = IdleReq]
    /\ UNCHANGED <<users, companies, invitations, locations, company_settings, now,
                   res, fixed>>

\* the body carries a role only
PosEditUpdateRoleOnly(r, faulty) ==
    /\ reqs[r].op = "edit-user" /\ reqs[r].pc = "update_role_only"
    /\ \E ok \in Outcomes(faulty) :
          IF ~ok
          THEN /\ Respond(r, Fail("pos", "edit-user", 500, "Failed to update role"))
               /\ UNCHANGED user_company_access
          ELSE /\ user_company_access' =
                     UpdateEdges(reqs[r].userId, reqs[r].companyId,
                                 LAMBDA e : [e EXCEPT !.role = reqs[r].role])
               /\ Respond(r, [Response("pos", "edit-user", 200) EXCEPT
                                 !.userId = reqs[r].userId, !.companyId = reqs[r].companyId,
                                 !.role = reqs[r].role])
    /\ UNCHANGED <<users, companies, invitations, locations, company_settings, now, fixed>>

-----------------------------------------------------------------------------
(* mock: the handlers that write access edges (synchronous) *)

\* Array.prototype.findIndex: the first row of the pair, 0 for -1
FirstEdge(userId, companyId) ==
    LET found == {i \in 1..Len(user_company_access) :
                     /\ user_company_access[i].user_id = userId
                     /\ user_company_access[i].company_id = companyId}
    IN IF found = {} THEN 0 ELSE CHOOSE i \in found : \A j \in found : i <= j

\* POST /companies/:id/users
MockAddUserToCompany(exclusive) ==
    /\ server = "mock"
    /\ exclusive => Quiescent
    /\ Len(user_company_access) < MaxEdges
    /\ \E companyId \in CompanyIds, userId \in EdgeUserIds, role \in EdgeRoles \cup {""} :
          LET existing == FirstEdge(userId, companyId) IN
          IF existing # 0
          THEN /\ user_company_access' =
                     [user_company_access EXCEPT
                         ![existing].is_active = TRUE,
                         ![existing].role = IF role # "" THEN role ELSE @]
               /\ res' = [Response("mock", "add-user", 200) EXCEPT
                             !.userId = userId, !.companyId = companyId,
                             !.role = user_company_access'[existing].role]
          ELSE /\ user_company_access' =
                     Append(user_company_access,
                            EdgeRow(userId, companyId,
                                    IF role # "" THEN role ELSE "user", FALSE, TRUE))
               /\ res' = [Response("mock", "add-user", 201) EXCEPT
                             !.userId = userId, !.companyId = companyId,
                             !.role = IF role # "" THEN role ELSE "user"]
    /\ UNCHANGED <<users, companies, invitations, locations, company_settings, now,
                   reqs, fixed>>

\* DELETE /companies/:id/users/:userId
MockRemoveUserFromCompany(exclusive) ==
    /\ server = "mock"
    /\ exclusive => Quiescent
    /\ \E companyId \in CompanyIds, userId \in EdgeUserIds :
          LET idx == FirstEdge(userId, companyId) IN
          IF idx = 0
          THEN /\ res' = Fail("mock", "remove-user", 404, "Access record not found")
               /\ UNCHANGED user_company_access
          ELSE /\ user_company_access' =
                     [user_company_access EXCEPT ![idx].is_active = FALSE]
               /\ res' = [Response("mock", "remove-user", 200) EXCEPT
                             !.userId = userId, !.companyId = companyId]
    /\ UNCHANGED <<users, companies, invitations, locations, company_settings, now,
                   reqs, fixed>>

-----------------------------------------------------------------------------
(* SpecEdges: the operations that write access edges, and the registrations *)
(* of the pos, one after another over a storage that does not fail          *)

InitEdges ==
    /\ server \in {"pos", "mock"}
    /\ users = <<Owner, UserRow(2, FALSE, "company_user", 0)>>
    /\ companies = <<NewCompanyRow(1, "active"), NewCompanyRow(2, "active")>>
    /\ user_company_access = <<EdgeRow(1, 1, "business_owner", TRUE, TRUE),
                               EdgeRow(2, 1, "cashier", TRUE, TRUE)>>
    /\ firm_company_access = <<>>
    /\ invitations = <<>>
    /\ locations = <<>>
    /\ company_settings = <<>>
    /\ now = 0
    /\ NoSean
    /\ reqs = [r \in ReqIds |-> IdleReq]
    /\ res = NoResponse

PosUpsertAccess(exclusive, faulty) ==
    \/ \E r \in ReqIds : PosUpsertBegin(r, exclusive)
    \/ \E r \in ReqIds : PosUpsertGetExisting(r, faulty)
    \/ \E r \in ReqIds : PosUpsertUpdate(r, faulty)
    \/ \E r \in ReqIds : PosUpsertInsert(r, faulty)

PosEditUser(exclusive, faulty) ==
    \/ \E r \in ReqIds : PosEditBegin(r, exclusive)
    \/ \E r \in ReqIds : PosEditFindUser(r, faulty)
    \/ \E r \in ReqIds : PosEditUpdateUser(r, faulty)
    \/ \E r \in ReqIds : PosEditUpdateRole(r, faulty)
    \/ \E r \in ReqIds : PosEditReassign(r, faulty)
    \/ \E r \in ReqIds : PosEditUpdateRoleOnly(r, faulty)

NextEdges ==
    \/ PosUpsertAccess(TRUE, FALSE)
    \/ PosEditUser(TRUE, FALSE)
    \/ PosRemoveUser(TRUE, FALSE)
    \/ PosSelfRegister(TRUE, FALSE)
    \/ MockAddUserToCompany(TRUE)
    \/ MockRemoveUserFromCompany(TRUE)

SpecEdges == InitEdges /\ [][NextEdges]_vars

ActiveEdgeRows(userId, companyId) ==
    {i \in 1..Len(user_company_access) :
        /\ user_company_access[i].user_id = userId
        /\ user_company_access[i].company_id = companyId
        /\ user_company_access[i].is_active}

\* C6: after any sequence of add-user, upsert, reassignment, removal and
\* registration operations no (user, company) pair has two access edges that
\* are active at the same time.
C6_OneActiveEdgePerPair ==
    \A e \in Range(user_company_access) :
        Cardinality(ActiveEdgeRows(e.user_id, e.company_id)) <= 1

-----------------------------------------------------------------------------
(* Claims about the tokens and the company lists of login, select-company  *)
(* and sso-launch (Spec)                                                    *)

Minted == res.status = 200 /\ res.token # NoToken

\* C11: every token minted by login, select-company or sso-launch for an
\* identity that is not a super-admin carries a role if and only if it
\* carries a company id.
C11_RoleIffCompany ==
    (Minted /\ ~IsSuperAdmin(res.userId))
        => (res.token.role # "null" <=> res.token.companyId # 0)

\* the response of the running server to a login
LoginResponse(loginId, password) ==
    CASE server = "eco" -> EcoLoginResponse(loginId, password)
      [] server = "pos" -> PosLoginResponse(loginId, password)
      [] OTHER -> MockLoginResponse(loginId, password)

\* C12: a login for a user that does not exist and a login with a wrong
\* password for a user that exists get the same response (status and body).
C12_Indistinguishable ==
    \A missing \in LoginIds, u \in Range(users), password \in Passwords :
        (ActiveUsersByLogin(missing) = <<>> /\ ~ValidPassword("bad", u))
            => /\ LoginResponse(missing, password) = LoginResponse(u.username, "bad")
               /\ LoginResponse(missing, password) = LoginResponse(u.email, "bad")

\* a login was refused while a user exists whose password the caller may
\* have got wrong
C12_Witness ==
    /\ res.op = "login" /\ res.status = 401
    /\ res = LoginResponse("nobody", "good")
    /\ \E u \in Range(users) : res = LoginResponse(u.username, "bad")

-----------------------------------------------------------------------------
(* C14, C15, C16 *)

\* the entries of a company list, as a set
EntriesOf(list) == {<<c.id, c.role, c.is_primary>> : c \in Range(list)}

\* the active edges of the user into active companies, as entries
ActiveEdgeEntries(userId) ==
    {<<a.company_id, a.role, B2S(a.is_primary)>> :
        a \in {e \in Range(user_company_access) :
                  e.user_id = userId /\ e.is_active /\ CompanyActive(e.company_id)}}

\* C14: the company set a login returns for a non-super-admin user is exactly
\* the set of active companies into which the user holds an active access
\* edge, each entry with that edge's role and is-primary flag.
C14_LoginCompanies ==
    (LoggedIn /\ ~IsSuperAdmin(res.userId))
        => EntriesOf(res.companies) = ActiveEdgeEntries(res.userId)

\* C15: the company set that login and GET /auth/companies return for a
\* super-admin is the set of all active companies, whatever the access-edge
\* table holds, each with the role super_admin.
C15_SuperAdminCompanies ==
    (res.status = 200 /\ res.op \in {"login", "companies"} /\ IsSuperAdmin(res.userId))
        => {<<c.id, c.role>> : c \in Range(res.companies)}
               = {<<c.id, "super_admin">> : c \in {x \in Range(companies) : x.is_active}}

\* the role of the active edge of the user into the company
EdgeRoleOf(userId, companyId) ==
    (CHOOSE a \in Range(user_company_access) :
        a.user_id = userId /\ a.company_id = companyId /\ a.is_active).role

\* C16: a select-company by an identity with an active access edge into an
\* active company whose subscription status is neither suspended nor pending
\* mints a token scoped to that company with that edge's role and returns
\* the permission set resolved for that role.
C16_SelectMintsScoped ==
    (SelectedCompany /\ HasActiveEdge(res.userId, res.companyId)
        /\ CompanyActive(res.companyId)
        /\ StatusOf(res.companyId) \notin {"suspended", "pending"})
        => /\ res.status = 200
           /\ res.token.companyId = res.companyId
           /\ res.token.role = EdgeRoleOf(res.userId, res.companyId)
           /\ res.permissions = GetRolePermissions(EdgeRoleOf(res.userId, res.companyId))

-----------------------------------------------------------------------------
(* SpecChecks: the role checks. hasRole of the payroll frontend, POST /invite *)
(* and PUT /companies/:companyId/users/:userId of the pos, called by        *)
(* identities with and without the super-admin flag.                        *)

CheckRoles == {"super_admin", "business_owner", "cashier", "null"}

\* the roles a page asks for; "clerk" is none of ROLE_LEVELS
RequiredRoles == {"super_admin", "business_owner", "accountant", "cashier", "clerk"}

\* an invitation lasts 7 days; one tick of the clock stands for them
InviteTtl == 1

\* ROLE_LEVELS[role] || 0
ROLE_LEVELS(role) ==
    CASE role = "super_admin" -> 100
      [] role = "business_owner" -> 95
      [] role = "accountant" -> 90
      [] role = "payroll_admin" -> 70
      [] role = "store_manager" -> 70
      [] role = "cashier" -> 20
      [] role = "trainee" -> 5
      [] OTHER -> 0

\* hasRole if it kept granting once it has granted
HasRole_OnceGranted(session, role) ==
    \/ res.op = "hasRole" /\ res.status = 200
    \/ /\ session # NoToken
       /\ \/ session.isSuperAdmin = "true"
          \/ ROLE_LEVELS(session.role) >= ROLE_LEVELS(role)

\* AUTH.hasRole(role) with the session of localStorage; NoToken is no session
HasRole(session, role) ==
    IF session = NoToken THEN FALSE
    ELSE IF session.isSuperAdmin = "true" THEN TRUE
    ELSE ROLE_LEVELS(session.role) >= ROLE_LEVELS(role)

\* the verdict of hasRole, 200 for true and 403 for false
PayrollHasRole ==
    /\ \E session \in {NoToken} \cup
                      {Identity(r, f) : r \in CheckRoles, f \in SuperAdminFlags},
          role \in RequiredRoles :
          res' = [Response("payroll", "hasRole",
                           IF HasRole(session, role) THEN 200 ELSE 403)
                    EXCEPT !.identity = session, !.required = role]
    /\ UNCHANGED store

\* POST /invite
PosInvite ==
    /\ server = "pos"
    /\ \E reqUser \in {Identity(r, f) : r \in CheckRoles, f \in SuperAdminFlags},
          email \in {"e3", ""}, role \in {"cashier", "owner"},
          companyId \in CompanyIds \cup {0} :
          LET targetCompanyId == IF companyId # 0 THEN companyId ELSE reqUser.companyId
              access == SelectSeq(user_company_access,
                                  LAMBDA a : /\ a.user_id = reqUser.userId
                                             /\ a.company_id = targetCompanyId
                                             /\ a.role = "business_owner")
              base == [Response("pos", "invite", 200) EXCEPT
                         !.identity = reqUser, !.companyId = targetCompanyId]
              refused(status, error) ==
                  /\ res' = [base EXCEPT !.status = status, !.error = error]
                  /\ UNCHANGED invitations
          IN  IF reqUser.role # "business_owner"
              THEN refused(403, "Only business owners can invite users")
              ELSE IF email = ""
              THEN refused(400, "Email and role are required")
              ELSE IF role \notin {"accountant", "admin", "cashier"}
              THEN refused(400, "Invalid role. Must be accountant, admin, or cashier")
              ELSE IF access = <<>>
              THEN refused(403, "You do not own this company")
              ELSE \E token \in Tokens \ {i.token : i \in Range(invitations)} :
                      /\ invitations' =
                            Append(invitations,
                                   InvitationRow(Len(invitations) + 1, token, targetCompanyId,
                                                 role, FALSE, now + InviteTtl))
                      /\ res' = [base EXCEPT !.invitationToken = token, !.email = email]
    /\ UNCHANGED <<users, companies, user_company_access, locations, company_settings,
                   now, reqs, fixed>>

InitChecks == InitEdges /\ server = "pos"

NextChecks ==
    \/ PayrollHasRole
    \/ PosInvite
    \/ PosUpsertAccess(TRUE, FALSE)

SpecChecks == InitChecks /\ [][NextChecks]_vars

\* what the role checks of the pos answer when they refuse
RoleCheckErrors == {"Only business owners can invite users", "Insufficient permissions"}

\* C17: an identity with the super-admin flag passes every permission check
\* and every role-level check, whatever role its token or session carries.
C17_SuperAdminPasses ==
    res.identity.isSuperAdmin = "true"
        => /\ res.op = "hasRole" => res.status = 200
           /\ res.error \notin RoleCheckErrors

-----------------------------------------------------------------------------
(* SpecSean: the Sean webapp. Logins by email, the maintenance of the      *)
(* database allow-list, requests carrying a session cookie, and the clock. *)

MaxSessions == 2

\* a session lives 30 days; one tick of the clock stands for them
SessionTtl == 1

CORE_SUPER_USERS ==
    {"ruanvlog@lorenco.co.za", "antonjvr@lorenco.co.za", "mj@lorenco.co.za"}

ADDITIONAL_SUPER_ADMINS == {"user3@lorenco.co.za", "user4@lorenco.co.za"}

\* what a client types into the login form or an administrator into the list
SeanEmails ==
    {"mj@lorenco.co.za", " MJ@Lorenco.co.za ", "user3@lorenco.co.za",
     "guest@example.com", "Guest@Example.com"}

SeanRoles == {"SUPER_USER", "ADMIN"}

\* email.toLowerCase().trim()
Normalize(email) ==
    CASE email = " MJ@Lorenco.co.za " -> "mj@lorenco.co.za"
      [] email = "Guest@Example.com" -> "guest@example.com"
      [] OTHER -> email

\* /^[^\s@]+@[^\s@]+\.[^\s@]+$/ on the normalized email
EmailRegex(normalizedEmail) == normalizedEmail # "guest"

\* the allow-list check that lets everyone in while the database is down
IsSuperUserEmail_FailOpen(email, dbFails) ==
    LET normalizedEmail == Normalize(email)
    IN  \/ normalizedEmail \in CORE_SUPER_USERS
        \/ normalizedEmail \in ADDITIONAL_SUPER_ADMINS
        \/ dbFails
        \/ \E allowed \in sean_allowedEmail :
              allowed.email = normalizedEmail /\ allowed.role = "SUPER_USER"

IsSuperUserEmail(email, dbFails) ==
    LET normalizedEmail == Normalize(email)
    IN  \/ normalizedEmail \in CORE_SUPER_USERS
        \/ normalizedEmail \in ADDITIONAL_SUPER_ADMINS
        \/ /\ ~dbFails
           /\ \E allowed \in sean_allowedEmail :
                 allowed.email = normalizedEmail /\ allowed.role = "SUPER_USER"

\* the database call of the login route that throws, if any
SeanFaults(faulty) ==
    IF faulty THEN {"none", "allowedEmail", "user", "session", "auditLog"} ELSE {"none"}

\* POST /api/auth/login of the Sean webapp. The verdict of validateEmail is
\* taken both ways.
SeanLogin(faulty) ==
    \E email \in SeanEmails, valid \in BOOLEAN, failsAt \in SeanFaults(faulty) :
        LET normalizedEmail == Normalize(email)
            isSuperUser == IsSuperUserEmail(normalizedEmail, failsAt = "allowedEmail")
            token == sean_issued + 1
            created == valid /\ isSuperUser /\ failsAt \in {"none", "auditLog"}
        IN  /\ server = "sean"
            /\ created => sean_issued < MaxSessions
            /\ res' = CASE ~valid -> Fail("sean", "login", 400, "Invalid email")
                        [] valid /\ ~isSuperUser ->
                             Fail("sean", "login", 403, "Access denied")
                        [] valid /\ isSuperUser /\ failsAt \in {"user", "session", "auditLog"} ->
                             Fail("sean", "login", 500, "Internal server error")
                        [] OTHER ->
                             [Response("sean", "login", 200) EXCEPT !.email = normalizedEmail]
            /\ sean_user' = IF valid /\ isSuperUser /\ failsAt # "user"
                            THEN sean_user \cup {normalizedEmail}
                            ELSE sean_user
            /\ sean_session' = IF created
                               THEN sean_session \cup
                                      {[token |-> token, email |-> normalizedEmail,
                                        expiresAt |-> now + SessionTtl]}
                               ELSE sean_session
            /\ sean_issued' = IF created THEN token ELSE sean_issued
            /\ UNCHANGED <<tables, now, reqs, server, kept, books, bearer, logouts, sean_allowedEmail>>

\* addAllowedEmail(email, role)
SeanAddAllowedEmail(faulty) ==
    \E email \in SeanEmails \cup {"guest"}, role \in SeanRoles, dbFails \in {FALSE, faulty} :
        LET normalizedEmail == Normalize(email)
            existing == {a \in sean_allowedEmail : a.email = normalizedEmail}
            added == EmailRegex(normalizedEmail) /\ ~dbFails /\ existing = {}
        IN  /\ server = "sean"
            /\ res' = CASE ~EmailRegex(normalizedEmail) ->
                             Fail("sean", "addAllowedEmail", 400, "Invalid email format")
                        [] EmailRegex(normalizedEmail) /\ dbFails ->
                             Fail("sean", "addAllowedEmail", 400, "Database error")
                        [] EmailRegex(normalizedEmail) /\ ~dbFails /\ existing # {} ->
                             Fail("sean", "addAllowedEmail", 400, "Email already allowed")
                        [] OTHER ->
                             [Response("sean", "addAllowedEmail", 200)
                                EXCEPT !.email = normalizedEmail]
            /\ sean_allowedEmail' =
                   IF added
                   THEN sean_allowedEmail \cup {[email |-> normalizedEmail, role |-> role]}
                   ELSE sean_allowedEmail
            /\ UNCHANGED <<tables, now, reqs, server, kept, books, bearer, logouts, sean_user, sean_session, sean_issued>>

\* removeAllowedEmail without its two refusals
SeanRemoveAllowedEmail_Unguarded ==
    \E email \in SeanEmails :
        LET normalizedEmail == Normalize(email)
            existing == {a \in sean_allowedEmail : a.email = normalizedEmail}
        IN  /\ server = "sean"
            /\ res' = IF existing = {}
                      THEN Fail("sean", "removeAllowedEmail", 400,
                                "Email not found or database error")
                      ELSE [Response("sean", "removeAllowedEmail", 200)
                              EXCEPT !.email = normalizedEmail]
            /\ sean_allowedEmail' = sean_allowedEmail \ existing
            /\ UNCHANGED <<tables, now, reqs, server, kept, books, bearer, logouts, sean_user, sean_session, sean_issued>>

\* removeAllowedEmail(email)
SeanRemoveAllowedEmail ==
    \E email \in SeanEmails :
        LET normalizedEmail == Normalize(email)
            existing == {a \in sean_allowedEmail : a.email = normalizedEmail}
            core == normalizedEmail \in CORE_SUPER_USERS
            additional == normalizedEmail \in ADDITIONAL_SUPER_ADMINS
        IN  /\ server = "sean"
            /\ res' = CASE core ->
                             Fail("sean", "removeAllowedEmail", 400,
                                  "Cannot remove core super user emails")
                        [] ~core /\ additional ->
                             Fail("sean", "removeAllowedEmail", 400,
                                  "Cannot remove super admin emails")
                        [] ~core /\ ~additional /\ existing = {} ->
                             Fail("sean", "removeAllowedEmail", 400,
                                  "Email not found or database error")
                        [] OTHER ->
                             [Response("sean", "removeAllowedEmail", 200)
                                EXCEPT !.email = normalizedEmail]
            /\ sean_allowedEmail' =
                   IF core \/ additional THEN sean_allowedEmail
                   ELSE sean_allowedEmail \ existing
            /\ UNCHANGED <<tables, now, reqs, server, kept, books, bearer, logouts, sean_user, sean_session, sean_issued>>

\* the rows of Session with the token (token is unique)
SessionsOf(token) == {s \in sean_session : s.token = token}

\* new Date() > session.expiresAt, with the test left out
SessionExpired_Never(s) == FALSE

\* new Date() > session.expiresAt
SessionExpired(s) == now > s.expiresAt

\* validateSession(token): the email of session.user, or "null"
ValidateSession(token) ==
    IF SessionsOf(token) = {} \/ \E s \in SessionsOf(token) : SessionExpired(s)
    THEN "null"
    ELSE (CHOOSE s \in SessionsOf(token) : TRUE).email

\* table Session after validateSession(token), which deletes an expired session
SessionsAfterValidate(token) ==
    sean_session \ {s \in SessionsOf(token) : SessionExpired(s)}

\* getUserFromRequest(request) with validateSession(token), for a request
\* carrying any session cookie
SeanGetUserFromRequest ==
    \E token \in 1..MaxSessions :
        LET user == ValidateSession(token)
        IN  /\ server = "sean"
            /\ res' = IF user # "null" /\ IsSuperUserEmail(user, FALSE)
                      THEN [Response("sean", "request", 200) EXCEPT !.email = user]
                      ELSE Fail("sean", "request", 401,
                                "Unauthorized - Super user access required")
            /\ sean_session' = SessionsAfterValidate(token)
            /\ UNCHANGED <<tables, now, reqs, server, kept, books, bearer, logouts, sean_allowedEmail, sean_user,
                           sean_issued>>

\* hasCoachingAccess if an email without a row had the access of the column
HasCoachingAccess_NoRowNeeded(email, dbFails, column) ==
    LET normalizedEmail == Normalize(email)
    IN  IF normalizedEmail \in CORE_SUPER_USERS
        THEN normalizedEmail = "ruanvlog@lorenco.co.za"
        ELSE IF normalizedEmail \in ADDITIONAL_SUPER_ADMINS THEN FALSE
        ELSE ~dbFails /\ column

\* hasCoachingAccess(email). No function of the repository writes the column
\* hasCoachingAccess of AllowedEmail: column is the value a row carries.
HasCoachingAccess(email, dbFails, column) ==
    LET normalizedEmail == Normalize(email)
    IN  IF normalizedEmail \in CORE_SUPER_USERS
        THEN normalizedEmail = "ruanvlog@lorenco.co.za"
        ELSE IF normalizedEmail \in ADDITIONAL_SUPER_ADMINS THEN FALSE
        ELSE /\ ~dbFails
             /\ \E allowed \in sean_allowedEmail : allowed.email = normalizedEmail
             /\ column

\* requireCoachingAccess(request) of the coaching routes; token 0 is a
\* request without a session cookie
SeanRequireCoachingAccess ==
    \E token \in 0..MaxSessions, dbFails \in BOOLEAN, column \in BOOLEAN :
        LET user == ValidateSession(token)
        IN  /\ server = "sean"
            /\ res' = IF token = 0
                      THEN Fail("sean", "coaching", 401, "Authentication required")
                      ELSE IF user = "null"
                      THEN Fail("sean", "coaching", 401, "Invalid session")
                      ELSE IF ~HasCoachingAccess(user, dbFails, column)
                      THEN [Fail("sean", "coaching", 403, "Coaching data access denied")
                              EXCEPT !.email = user]
                      ELSE [Response("sean", "coaching", 200) EXCEPT !.email = user]
            /\ sean_session' = IF token = 0 THEN sean_session
                               ELSE SessionsAfterValidate(token)
            /\ UNCHANGED <<tables, now, reqs, server, kept, books, bearer, logouts, sean_allowedEmail, sean_user,
                           sean_issued>>

InitSean ==
    /\ server = "sean"
    /\ users = <<>> /\ companies = <<>>
    /\ user_company_access = <<>> /\ firm_company_access = <<>>
    /\ invitations = <<>> /\ locations = <<>> /\ company_settings = <<>>
    /\ now = 0
    /\ reqs = [r \in ReqIds |-> IdleReq]
    /\ res = NoResponse
    /\ sean_allowedEmail \in
          {{}, {[email |-> "guest@example.com", role |-> "ADMIN"]}}
    /\ sean_user = {}
    /\ sean_session = {}
    /\ sean_issued = 0
    /\ bearer = NoBearer
    /\ logouts = <<>>
    /\ memo = NoResponse
    /\ NoBooks

NextSean ==
    \/ SeanLogin(TRUE)
    \/ SeanAddAllowedEmail(TRUE)
    \/ SeanRemoveAllowedEmail
    \/ SeanGetUserFromRequest
    \/ SeanRequireCoachingAccess
    \/ Tick

SpecSean == InitSean /\ [][NextSean]_vars

\* the hardcoded allow-list
Hardcoded == CORE_SUPER_USERS \cup ADDITIONAL_SUPER_ADMINS

\* the emails on the database allow-list
OnDatabaseList == {a.email : a \in sean_allowedEmail}

\* C13: a session of the Sean webapp is created only for an email on the
\* hardcoded allow-list or on the database allow-list, and no login and no
\* request with a session cookie authenticates any other email.
C13_AllowListOnly ==
    [][/\ \A s \in sean_session' \ sean_session :
             s.email \in Hardcoded \cup OnDatabaseList
       /\ (res'.app = "sean" /\ res'.op \in {"login", "request"} /\ res'.status = 200)
             => res'.email \in Hardcoded \cup OnDatabaseList']_vars

\* a session exists for an email that only the database allow-list carries,
\* and a request with its cookie has just been let in
C13_Witness ==
    /\ res.op = "request" /\ res.status = 200
    /\ res.email \notin Hardcoded
    /\ \E s \in sean_session : s.email = res.email

-----------------------------------------------------------------------------
(* SpecTokens: the life of a token. A client logs in and keeps the token,   *)
(* presents it (or something else) to the protected routes and to logout,   *)
(* and the clock runs past the expiry.                                      *)

MaxLogouts == 2

\* expiresIn: '8h'; one tick of the clock stands for it
TokenTtl == 1

\* jwt.sign(tokenPayload, JWT_SECRET, { expiresIn }) at time t
JwtSign(userId, t) == [kind |-> "signed", exp |-> t + TokenTtl, userId |-> userId]

\* what else a client may present: a string that is no token, and a token
\* signed with another key
OtherBearers ==
    {[kind |-> "malformed", exp |-> 0, userId |-> 0]}
        \cup {[kind |-> "forged", exp |-> e, userId |-> 1] : e \in 0..(MaxNow + TokenTtl)}

\* jwt.verify(token, JWT_SECRET) at time t: the name of the error it throws,
\* "none" when it returns the claims; the signature is checked before exp
JwtVerify(token, t) ==
    CASE token.kind \in {"malformed", "forged"} -> "JsonWebTokenError"
      [] token.kind = "signed" /\ t >= token.exp -> "TokenExpiredError"
      [] OTHER -> "none"

\* the handler that answers every expired token as an invalid one
GlobalErrorHandler_OneMessage(app, op, name) ==
    CASE name \in {"JsonWebTokenError", "TokenExpiredError"} ->
            Fail(app, op, 401, "Invalid token")
      [] OTHER -> Fail(app, op, 500, "Internal server error")

\* app.use((err, req, res, next) => ...): the JWT errors
GlobalErrorHandler(app, op, name) ==
    CASE name = "JsonWebTokenError" -> Fail(app, op, 401, "Invalid token")
      [] name = "TokenExpiredError" -> Fail(app, op, 401, "Token expired")
      [] OTHER -> Fail(app, op, 500, "Internal server error")

\* a logout route that strikes its token off
RevokedTokens_LoggedOut == Range(logouts)

\* the tokens the logout route has struck off: none, it writes an audit
\* event and nothing else
RevokedTokens == {}

\* authenticateToken in front of a route: the rejection it answers, or
\* NoResponse when the request goes on to the route with req.user attached
AuthenticateToken(app, op, token, t) ==
    IF token = NoBearer THEN Fail(app, op, 401, "Access token required")
    ELSE IF JwtVerify(token, t) # "none" THEN GlobalErrorHandler(app, op, JwtVerify(token, t))
    ELSE IF token \in RevokedTokens THEN GlobalErrorHandler(app, op, "JsonWebTokenError")
    ELSE NoResponse

\* POST /logout behind authenticateToken
Logout(app) ==
    LET rejected == AuthenticateToken(app, "logout", bearer, now)
    IN  /\ server = app
        /\ Len(logouts) < MaxLogouts
        /\ IF rejected # NoResponse
           THEN /\ res' = rejected
                /\ UNCHANGED logouts
           ELSE /\ res' = [Response(app, "logout", 200) EXCEPT !.userId = bearer.userId]
                /\ logouts' = Append(logouts, bearer)
        /\ UNCHANGED bearer
        /\ UNCHANGED <<tables, now, reqs, server, kept, books, sean>>

EcoLogout == Logout("eco")

MockLogout == Logout("mock")

\* GET /companies behind authenticateToken, the protected route
GetCompanies(app) ==
    LET rejected == AuthenticateToken(app, "companies", bearer, now)
        reqUser == [userId |-> bearer.userId]
    IN  /\ server = app
        /\ res' = IF rejected # NoResponse THEN rejected
                  ELSE IF app = "eco" THEN EcoCompaniesResponse(reqUser)
                  ELSE MockCompaniesResponse(reqUser)
        /\ UNCHANGED <<store, bearer, logouts>>

\* AUTH.login of the payroll frontend: localStorage.setItem('token', result.token)
PayrollLogin ==
    /\ \E i \in 1..Len(users) :
          LET response == LoginResponse(users[i].username, users[i].password)
          IN  /\ res' = response
              /\ bearer' = IF response.status = 200 THEN JwtSign(users[i].id, now)
                           ELSE bearer
    /\ UNCHANGED <<tables, now, reqs, server, kept, books, sean, logouts>>

\* AUTH.logout of the payroll frontend: it tells the server without waiting
\* for the answer, and clears localStorage; it returns nothing
PayrollLogout ==
    LET rejected == AuthenticateToken(server, "logout", bearer, now)
    IN  /\ Len(logouts) < MaxLogouts
        /\ logouts' = IF rejected = NoResponse THEN Append(logouts, bearer) ELSE logouts
        /\ bearer' = NoBearer
        /\ res' = Response("payroll", "logout", 0)
        /\ UNCHANGED <<tables, now, reqs, server, kept, books, sean>>

\* the client presents something that no login handed out
PresentOther ==
    /\ bearer' \in OtherBearers
    /\ UNCHANGED <<tables, now, reqs, server, kept, books, sean, res, logouts>>

InitTokens ==
    /\ server \in {"eco", "mock"}
    /\ users = <<UserRow(1, FALSE, "company_user", 0)>>
    /\ companies = <<NewCompanyRow(1, "active")>>
    /\ user_company_access = <<EdgeRow(1, 1, "business_owner", TRUE, TRUE)>>
    /\ firm_company_access = <<>>
    /\ invitations = <<>> /\ locations = <<>> /\ company_settings = <<>>
    /\ now = 0
    /\ NoSean
    /\ reqs = [r \in ReqIds |-> IdleReq]
    /\ res = NoResponse

NextTokens ==
    \/ PayrollLogin
    \/ EcoLogout
    \/ MockLogout
    \/ GetCompanies("eco")
    \/ GetCompanies("mock")
    \/ PayrollLogout
    \/ PresentOther
    \/ Tick

SpecTokens == InitTokens /\ [][NextTokens]_vars

\* the step is a request with the token the client holds, answered at once
Answered(op) == res'.op = op /\ res'.app = server /\ UNCHANGED <<now, bearer>>

Expired == bearer.kind = "signed" /\ now >= bearer.exp

\* C18: a logout with an already expired token, called once or twice, does
\* not throw and is answered with success.
C18_ExpiredLogoutSucceeds ==
    [][(Answered("logout") /\ Expired) => res'.status = 200]_vars

\* C19: logout does not invalidate a token. However many logouts went
\* before, a protected route accepts the token the client holds at every
\* moment before the expiry, and never at or after it.
C19_OnlyExpiryInvalidates ==
    [][(Answered("companies") /\ bearer.kind = "signed")
          => (res'.status = 200 <=> now < bearer.exp)]_vars

\* the token went through two logouts and the protected route still takes it
C19_Witness ==
    /\ Len(logouts) = 2 /\ logouts[1] = bearer /\ logouts[2] = bearer
    /\ bearer.kind = "signed" /\ now < bearer.exp
    /\ res.op = "companies" /\ res.status = 200

\* C20: verifying a token whose ttl has elapsed yields "Token expired", never
\* "Invalid token"; a malformed or wrongly signed token yields "Invalid token".
C20_ExpiredNotInvalid ==
    [][(res'.op \in {"companies", "logout"} /\ res'.app = server
          /\ UNCHANGED <<now, bearer>>)
          => /\ Expired => (res'.status = 401 /\ res'.error = "Token expired")
             /\ bearer.kind \in {"malformed", "forged"}
                   => (res'.status = 401 /\ res'.error = "Invalid token")]_vars

\* a token that a logout once accepted has expired, and the protected route
\* says so
C20_Witness ==
    /\ Expired /\ res.op = "companies" /\ res.error = "Token expired"
    /\ Len(logouts) > 0

-----------------------------------------------------------------------------
(* SpecEvaluator: the permission evaluators called again and again, in any *)
(* order, by callers who keep an answer and compare the later ones with it. *)

\* GET /me of the eco: the user of the token, its role and the permissions of the role
EcoMeResponse(reqUser) ==
    LET base == [Response("eco", "me", 200) EXCEPT
                   !.userId = reqUser.userId, !.identity = reqUser]
    IN  IF UserRows(reqUser.userId) = <<>>
        THEN [base EXCEPT !.status = 404, !.error = "User not found"]
        ELSE [base EXCEPT
                !.username = UserRows(reqUser.userId)[1].username,
                !.email = UserRows(reqUser.userId)[1].email,
                !.companyId = reqUser.companyId,
                !.role = reqUser.role,
                !.permissions = IF reqUser.role # "null"
                                THEN GetRolePermissions(reqUser.role)
                                ELSE NoPermissions]

EcoMe ==
    /\ server = "eco"
    /\ \E i \in 1..Len(users) : \E reqUser \in EcoTokens(users[i]) :
          res' = EcoMeResponse(reqUser)
    /\ UNCHANGED store

\* the caller keeps the answer it has just received
Keep ==
    /\ res # NoResponse
    /\ memo' = res
    /\ UNCHANGED <<tables, now, reqs, res, server, books, sean, bearer, logouts>>

InitEvaluator ==
    /\ server \in {"eco", "pos"}
    /\ users = <<UserRow(1, FALSE, "company_user", 0), UserRow(2, FALSE, "company_user", 0)>>
    /\ companies = <<NewCompanyRow(1, "active"), NewCompanyRow(2, "active")>>
    /\ user_company_access = <<EdgeRow(1, 1, "business_owner", TRUE, TRUE),
                               EdgeRow(1, 2, "cashier", FALSE, TRUE),
                               EdgeRow(2, 1, "cashier", TRUE, TRUE)>>
    /\ firm_company_access = <<>>
    /\ invitations = <<>> /\ locations = <<>> /\ company_settings = <<>>
    /\ now = 0
    /\ NoSean
    /\ reqs = [r \in ReqIds |-> IdleReq]
    /\ res = NoResponse

NextEvaluator ==
    \/ PayrollHasRole
    \/ EcoMe
    \/ PosSelectCompany
    \/ Keep

SpecEvaluator == InitEvaluator /\ [][NextEvaluator]_vars

\* the two answers are to the same question put to hasRole
SameRoleCheck(a, b) ==
    /\ a.op = "hasRole" /\ b.op = "hasRole"
    /\ a.identity = b.identity /\ a.required = b.required

\* the two answers carry the permissions of the same role
SameRolePermissions(a, b) ==
    /\ a.op \in {"me", "select-company"} /\ b.op \in {"me", "select-company"}
    /\ a.status = 200 /\ b.status = 200
    /\ a.role = b.role

-----------------------------------------------------------------------------
(* The audit recorder of the logins *)

\* C22: a failure of the audit recorder does not block the primary response:
\* a login of the Sean webapp that has created its session answers with the
\* success it answers with when the audit write succeeds.
C22_AuditFailureDoesNotBlock ==
    [][(res'.app = "sean" /\ res'.op = "login" /\ sean_session' # sean_session)
          => res'.status = 200]_vars

-----------------------------------------------------------------------------
(* SpecEdgeRace: edits of access edges that overlap in time. Each database *)
(* call of an edit is one step, and the calls of two edits interleave.      *)

NextEdgeRace ==
    \/ PosUpsertAccess(FALSE, TRUE)
    \/ MockAddUserToCompany(FALSE)

\* user 2 with no edge yet, or with an edge into company 1
InitEdgeRace ==
    /\ server \in {"pos", "mock"}
    /\ users = <<Owner, UserRow(2, FALSE, "company_user", 0)>>
    /\ companies = <<NewCompanyRow(1, "active"), NewCompanyRow(2, "active")>>
    /\ user_company_access \in {<<>>, <<EdgeRow(2, 1, "cashier", TRUE, TRUE)>>}
    /\ firm_company_access = <<>>
    /\ invitations = <<>> /\ locations = <<>> /\ company_settings = <<>>
    /\ now = 0
    /\ NoSean
    /\ reqs = [r \in ReqIds |-> IdleReq]
    /\ res = NoResponse

SpecEdgeRace == InitEdgeRace /\ [][NextEdgeRace]_vars

\* the edges of the other (user, company) pairs
OtherEdges(userId, companyId) ==
    SelectSeq(user_company_access,
              LAMBDA e : ~(e.user_id = userId /\ e.company_id = companyId))

\* request r writes its edge in this step and answers success
Applies(r) ==
    /\ reqs[r].op = "upsert-access" /\ reqs[r].pc \in {"update", "insert"}
    /\ reqs'[r] = IdleReq
    /\ res'.status = 200

\* C23: concurrent edits of the same access edge resolve last-writer-wins at
\* the row level: whenever an edit is applied, the pair is left with the one
\* row that edit has written, and no other edge is created or changed.
C23_LastWriterWins ==
    [][\A r \in ReqIds, userId \in UserIds, companyId \in CompanyIds :
          (Applies(r) /\ reqs[r].userId = userId /\ reqs[r].companyId = companyId) =>
              \E role \in EdgeRoles :
                 /\ role = reqs[r].role
                 /\ Len(EdgesOf(userId, companyId)') = 1
                 /\ EdgesOf(userId, companyId)'[1].role = role
                 /\ OtherEdges(userId, companyId)' = OtherEdges(userId, companyId)]_vars

-----------------------------------------------------------------------------
(* SpecLoginRace: logins that overlap in time. A login looks the user up,  *)
(* checks the password, and reads the companies in a later step.            *)

\* the user row the handler found, a constant of its own invocation
LoginUser_Shared(r) ==
    IF \E q \in ReqIds \ {r} : reqs[q].op = "login"
    THEN reqs[CHOOSE q \in ReqIds \ {r} : reqs[q].op = "login"].userId
    ELSE reqs[r].userId

LoginUser(r) == reqs[r].userId

\* POST /login up to bcrypt.compare: the lookup of the user and the password
LoginFindUser(r, exclusive) ==
    /\ server \in Apps
    /\ MayBegin(r, exclusive)
    /\ \E loginId \in LoginIds, password \in Passwords :
          IF LoginResponse(loginId, password).status # 200
          THEN /\ res' = LoginResponse(loginId, password)
               /\ UNCHANGED reqs
          ELSE /\ reqs' = [reqs EXCEPT ![r] =
                              [IdleReq EXCEPT
                                  !.op = "login", !.pc = "companies", !.username = loginId,
                                  !.userId = LoginResponse(loginId, password).userId]]
               /\ UNCHANGED res
    /\ UNCHANGED <<tables, now, server, elsewhere>>

\* POST /login from the query of the companies to the response
LoginCompanies(r) ==
    /\ reqs[r].op = "login" /\ reqs[r].pc = "companies"
    /\ Respond(r, LoginResponse(UserRows(LoginUser(r))[1].username,
                                UserRows(LoginUser(r))[1].password))
    /\ UNCHANGED <<tables, now, server, elsewhere>>

InitLoginRace ==
    /\ server \in Apps
    /\ users = <<UserRow(1, FALSE, "company_user", 0), UserRow(2, FALSE, "company_user", 0)>>
    /\ companies = <<NewCompanyRow(1, "active"), NewCompanyRow(2, "active")>>
    /\ user_company_access = <<EdgeRow(1, 1, "business_owner", TRUE, TRUE),
                               EdgeRow(1, 2, "cashier", FALSE, TRUE),
                               EdgeRow(2, 1, "cashier", TRUE, TRUE)>>
    /\ firm_company_access = <<>>
    /\ invitations = <<>> /\ locations = <<>> /\ company_settings = <<>>
    /\ now = 0
    /\ NoSean
    /\ reqs = [r \in ReqIds |-> IdleReq]
    /\ res = NoResponse

NextLoginRace ==
    \/ \E r \in ReqIds : LoginFindUser(r, FALSE)
    \/ \E r \in ReqIds : LoginCompanies(r)

SpecLoginRace == InitLoginRace /\ [][NextLoginRace]_vars

-----------------------------------------------------------------------------
(* The company a launch without companyId resolves (Spec) *)

\* the companies POST /sso-launch {targetApp: 'pos'} can resolve for the user
SsoResolved(u) ==
    IF server = "eco"
    THEN {r.companyId : r \in UNION {EcoSsoLaunchResponses(reqUser, "pos", 0) :
                                        reqUser \in EcoTokens(u)}}
    ELSE {MockSsoLaunchResponse(reqUser, "pos", 0).companyId : reqUser \in MockTokens(u)}

PrimaryEdges(userId) == SelectSeq(ActiveEdges(userId), LAMBDA a : a.is_primary)

\* C25: a launch without companyId by a user who is not a super-admin and
\* holds several active edges resolves the company of the edge marked
\* is_primary if there is one, otherwise of the first edge, and repeated
\* launches from the same store resolve the same company.
C25_LaunchResolvesPrimary ==
    server \in {"eco", "mock"} =>
        \A u \in Range(users) :
            (~u.is_super_admin /\ Len(ActiveEdges(u.id)) > 1 /\ SsoResolved(u) # {}) =>
                /\ Cardinality(SsoResolved(u)) = 1
                /\ PrimaryEdges(u.id) # <<>> =>
                      SsoResolved(u) \subseteq
                          {a.company_id : a \in Range(PrimaryEdges(u.id))}
                /\ PrimaryEdges(u.id) = <<>> =>
                      SsoResolved(u) = {ActiveEdges(u.id)[1].company_id}

-----------------------------------------------------------------------------
(* The account a redeemed invitation gives (SpecInvite) *)

\* the registration answered last has redeemed the invitation inv
Redeemed(inv) ==
    /\ res.app = "pos" /\ res.op = "register" /\ res.status = 200
    /\ res.invitationToken = inv.token

\* the account is linked to the company of the invitation with its role, and
\* to no other company
LinkedAsInvited(userId, inv) ==
    SelectSeq(user_company_access, LAMBDA e : e.user_id = userId)
        = <<EdgeRow(userId, inv.company_id, inv.invitation_type, TRUE, TRUE)>>

\* C26: redeeming an invitation creates an account for the email named in
\* the invitation, linked to the invitation's company with the invitation's
\* role and to no other company.
C26_AccountAsInvited ==
    \A inv \in Range(invitations) :
        Redeemed(inv) =>
            /\ Len(UserRows(res.newUserId)) = 1
            /\ UserRows(res.newUserId)[1].email = inv.email
            /\ LinkedAsInvited(res.newUserId, inv)

-----------------------------------------------------------------------------
(* The mock routes against the Supabase-backed routes, over the same store *)

\* what a login response says about the company: the claim's fields
LoginFields(r) ==
    <<r.status, r.selectedCompany, r.token.companyId, r.token.role,
      r.requiresCompanySelection>>

\* the mock login answers as the ecosystem login does
MockLoginAsEco ==
    \A loginId \in LoginIds, password \in Passwords :
        LoginFields(MockLoginResponse(loginId, password))
            = LoginFields(EcoLoginResponse(loginId, password))

\* the mock select-company answers with the status and the fields of the
\* ecosystem one
MockSelectAsEco ==
    \A u \in Range(users), companyId \in CompanyIds \cup {0} :
        [MockSelectCompanyResponse(ReqUser(u), companyId) EXCEPT !.app = "eco"]
            = EcoSelectCompanyResponse(ReqUser(u), companyId)

\* C27: for the same users, companies and access edges the mock auth routes
\* respond exactly as the Supabase-backed routes do, in login and in
\* select-company.
C27_MockAsEco ==
    server \in {"eco", "mock"} => (MockLoginAsEco /\ MockSelectAsEco)

-----------------------------------------------------------------------------
(* The lifetime of the tokens (Spec) *)

\* C28: every token minted by login and every token minted by
\* select-company has the one expiry policy of 8 hours.
C28_OneExpiryPolicy ==
    (res.op \in {"login", "select-company"} /\ Minted) => res.token.expiresIn = 8

-----------------------------------------------------------------------------
(* Sessions that outlive the allow-list entry of their user (SpecSean) *)

\* a session that has not expired, of a user whose email is on neither list
\* any more: the entry of the email has been removed
SessionsOfRemoved ==
    {s \in sean_session : ~SessionExpired(s) /\ s.email \notin Hardcoded \cup OnDatabaseList}

\* this step answers a request that carries a session cookie (any of the
\* sessions stored), while every session stored is one of a removed email
AnswersRemoved(op) ==
    /\ res'.app = "sean" /\ res'.op = op
    /\ UNCHANGED <<now, sean_allowedEmail>>
    /\ SessionsOfRemoved # {}
    /\ sean_session = SessionsOfRemoved

-----------------------------------------------------------------------------
(* SpecSession: sessions of the Sean webapp created, validated and expiring *)

\* validateSession(token) called with any token; res keeps the token and the
\* user returned ("null" for null)
SeanValidateSession ==
    \E token \in 1..MaxSessions :
        /\ server = "sean"
        /\ res' = [Response("sean", "validateSession",
                            IF ValidateSession(token) # "null" THEN 200 ELSE 401)
                     EXCEPT !.email = ValidateSession(token), !.cookie = token]
        /\ sean_session' = SessionsAfterValidate(token)
        /\ UNCHANGED <<tables, now, reqs, server, kept, books, bearer, logouts, sean_allowedEmail,
                       sean_user, sean_issued>>

NextSession ==
    \/ SeanLogin(FALSE)
    \/ SeanAddAllowedEmail(FALSE)
    \/ SeanValidateSession
    \/ Tick

SpecSession == InitSean /\ [][NextSession]_vars

\* this step is validateSession(token)
Validates(token) ==
    /\ res'.op = "validateSession" /\ res'.cookie = token
    /\ UNCHANGED <<now, sean_issued, sean_allowedEmail>>

\* C30: validateSession never returns a user for a session whose expiry time
\* has passed: the validation of such a session deletes its row and returns
\* null, and a validation of a token that has no row returns null; no
\* session is ever created under a token handed out before.
C30_ExpiredNeverValidates ==
    [][/\ \A token \in 1..MaxSessions :
             (Validates(token) /\ \A s \in SessionsOf(token) : now > s.expiresAt)
                => /\ res'.email = "null"
                   /\ SessionsOf(token)' = {}
       /\ \A s \in sean_session' \ sean_session : s.token > sean_issued]_vars

\* a validation has returned null for a token that was handed out and whose
\* session, expired, is gone, while time went on to the end
C30_Witness ==
    /\ res.op = "validateSession" /\ res.email = "null"
    /\ res.cookie <= sean_issued
    /\ SessionsOf(res.cookie) = {}
    /\ now > SessionTtl

-----------------------------------------------------------------------------
(* The hardcoded super users under additions and removals (SpecSean) *)

\* what removeAllowedEmail answers when it refuses a hardcoded email
HardcodedRefusals ==
    {"Cannot remove core super user emails", "Cannot remove super admin emails"}

\* C31: after any sequence of addAllowedEmail and removeAllowedEmail calls
\* every hardcoded core super user and additional super admin email is still
\* a super user, whether the database answers or not; removeAllowedEmail
\* never succeeds on such an email, and when it refuses one it changes
\* nothing.
C31_HardcodedStay ==
    /\ [](\A email \in Hardcoded, dbFails \in BOOLEAN : IsSuperUserEmail(email, dbFails))
    /\ [][res'.op = "removeAllowedEmail" =>
             /\ res'.status = 200 => res'.email \notin Hardcoded
             /\ res'.error \in HardcodedRefusals =>
                   /\ res'.status = 400
                   /\ UNCHANGED <<sean_allowedEmail, sean_user, sean_session>>]_vars

\* the removal of a core super user, who also has a row on the database
\* list, has been refused and the row is still there
C31_Witness ==
    /\ res.op = "removeAllowedEmail" /\ res.status = 400
    /\ res.error = "Cannot remove core super user emails"
    /\ OnDatabaseList \cap CORE_SUPER_USERS # {}

-----------------------------------------------------------------------------
(* SpecPayroll: the payroll periods of the mock payroll routes. The callers *)
(* hold the permissions the routes ask for.                                 *)

MaxPeriods == 1

IdCounter == 1000

PeriodFlow == <<"draft", "processing", "approved", "paid", "closed">>

\* req.body.status: a status of the flow, another string, or no status at all
RequestedStatuses == Range(PeriodFlow) \cup {"void", "undefined"}

\* the payroll periods of the mock data; of a period the routes below read
\* id, company_id and status, the other fields are stamps
SeedPeriods ==
    <<[id |-> 1, company_id |-> 1, status |-> "paid"],
      [id |-> 2, company_id |-> 1, status |-> "approved"],
      [id |-> 3, company_id |-> 1, status |-> "draft"]>>

PeriodIds == {1, 2, 3} \cup (IdCounter + 1)..(IdCounter + MaxPeriods)

\* mock.nextId()
NextPeriodId == IdCounter + (Len(payrollPeriods) - Len(SeedPeriods)) + 1

\* validFlow[current]; a key the object does not have gives undefined
ValidFlow(current) ==
    CASE current = "draft" -> "processing"
      [] current = "processing" -> "approved"
      [] current = "approved" -> "paid"
      [] current = "paid" -> "closed"
      [] OTHER -> "undefined"

\* POST /periods
PayrollCreatePeriod ==
    /\ server = "mock"
    /\ \E companyId \in CompanyIds, dates \in BOOLEAN :
          IF ~dates
          THEN /\ res' = Fail("mock", "create-period", 400,
                              "start_date, end_date, and pay_date are required")
               /\ UNCHANGED payrollPeriods
          ELSE /\ Len(payrollPeriods) < Len(SeedPeriods) + MaxPeriods
               /\ payrollPeriods' =
                     Append(payrollPeriods,
                            [id |-> NextPeriodId, company_id |-> companyId,
                             status |-> "draft"])
               /\ res' = [Response("mock", "create-period", 201) EXCEPT
                             !.companyId = companyId, !.periodId = NextPeriodId]
    /\ UNCHANGED <<tables, now, reqs, server, sean, bearer, logouts, kept,
                   journals, integration_transactions, batches>>

\* PUT /periods/:id/status
PayrollUpdateStatus ==
    /\ server = "mock"
    /\ \E id \in PeriodIds, companyId \in CompanyIds, status \in RequestedStatuses :
          LET found == {idx \in 1..Len(payrollPeriods) :
                           /\ payrollPeriods[idx].id = id
                           /\ payrollPeriods[idx].company_id = companyId}
              idx == CHOOSE x \in found : \A y \in found : x <= y
              current == payrollPeriods[idx].status
              base == [Response("mock", "period-status", 200) EXCEPT
                         !.companyId = companyId, !.periodId = id, !.requested = status]
          IN  IF found = {}
              THEN /\ res' = [base EXCEPT !.status = 404, !.error = "Period not found"]
                   /\ UNCHANGED payrollPeriods
              ELSE IF ValidFlow(current) # status /\ status # "draft"
              THEN /\ res' = [base EXCEPT !.status = 400, !.error = "Cannot transition"]
                   /\ UNCHANGED payrollPeriods
              ELSE /\ payrollPeriods' = [payrollPeriods EXCEPT ![idx].status = status]
                   /\ res' = base
    /\ UNCHANGED <<tables, now, reqs, server, sean, bearer, logouts, kept,
                   journals, integration_transactions, batches>>

\* the mock server after start-up; the stores of the other applications
\* are empty
PayrollBooks ==
    /\ sean_allowedEmail = {} /\ sean_user = {} /\ sean_session = {}
    /\ sean_issued = 0 /\ bearer = NoBearer /\ logouts = <<>> /\ memo = NoResponse
    /\ payrollPeriods = SeedPeriods
    /\ journals = <<>> /\ integration_transactions = <<>>
    /\ batches = [r \in ReqIds |-> NoBatch]

InitPayroll ==
    /\ server = "mock"
    /\ users = <<Owner>>
    /\ companies = <<NewCompanyRow(1, "active"), NewCompanyRow(2, "active")>>
    /\ user_company_access = <<EdgeRow(1, 1, "business_owner", TRUE, TRUE)>>
    /\ firm_company_access = <<>>
    /\ invitations = <<>> /\ locations = <<>> /\ company_settings = <<>>
    /\ now = 0
    /\ PayrollBooks
    /\ reqs = [r \in ReqIds |-> IdleReq]
    /\ res = NoResponse

NextPayroll ==
    \/ PayrollCreatePeriod
    \/ PayrollUpdateStatus

SpecPayroll == InitPayroll /\ [][NextPayroll]_vars

\* the status after a status of the flow; closed has none
FlowSuccessor(status) ==
    IF \E k \in 1..(Len(PeriodFlow) - 1) : PeriodFlow[k] = status
    THEN PeriodFlow[1 + CHOOSE k \in 1..(Len(PeriodFlow) - 1) : PeriodFlow[k] = status]
    ELSE "none"

\* C32: a status update of a payroll period is accepted only when the
\* requested status is the successor of the current status in the flow
\* draft, processing, approved, paid, closed, or is "draft"; every other
\* request for the period returns 400 and leaves the period unchanged.
C32_OnlySuccessorOrDraft ==
    [][res'.op = "period-status" =>
          \A p \in Range(payrollPeriods) :
              (p.id = res'.periodId /\ p.company_id = res'.companyId) =>
                  IF res'.requested = FlowSuccessor(p.status) \/ res'.requested = "draft"
                  THEN res'.status = 200
                  ELSE res'.status = 400 /\ UNCHANGED payrollPeriods]_vars

\* C40: after any sequence of period creations and status updates the status
\* of every payroll period is one of draft, processing, approved, paid,
\* closed.
C40_StatusInFlow ==
    \A p \in Range(payrollPeriods) : p.status \in Range(PeriodFlow)

-----------------------------------------------------------------------------
(* SpecImport: POST /external/transactions of one integration. Each batch   *)
(* runs in a database transaction of its own (READ COMMITTED): it reads the *)
(* committed rows and the rows it wrote itself, and what it wrote reaches   *)
(* the tables at COMMIT. A journal and a row are written as the externalId  *)
(* they carry; "null" is a transaction without externalId.                  *)

MaxBatch == 2

MaxJournals == 2

ExternalIds == {"a", "b", "null"}

Batches ==
    UNION {[1..n -> ExternalIds] : n \in 0..MaxBatch}

\* a table without the index
Indexed_Never(externalId) == FALSE

\* idx_integration_transactions_unique_external: the rows the index holds
Indexed(externalId) == externalId # "null"

\* rows the other transactions have written and not yet committed; a failed
\* transaction has given up its rows
Uncommitted(r) ==
    UNION {Range(batches[o].rows) : o \in {x \in ReqIds \ {r} : ~batches[x].aborted}}

\* the INSERT finds the key in the index: committed, or written by itself
UniqueViolation(r, externalId) ==
    /\ Indexed(externalId)
    /\ externalId \in Range(integration_transactions) \cup Range(batches[r].rows)

\* the INSERT waits for the transaction that holds the key
Waits(r, externalId) ==
    /\ Indexed(externalId)
    /\ ~UniqueViolation(r, externalId)
    /\ externalId \in Uncommitted(r)

\* two transactions wait for each other
Deadlock(r, externalId) ==
    /\ Waits(r, externalId)
    /\ \E o \in ReqIds \ {r} :
          /\ batches[o].pc = "row"
          /\ externalId \in Range(batches[o].rows)
          /\ Waits(o, batches[o].txns[batches[o].i])

\* the loop goes to its next transaction, or to COMMIT after the last one
NextTxn(b) ==
    IF b.i < Len(b.txns)
    THEN [b EXCEPT !.i = b.i + 1, !.pc = "check"]
    ELSE [b EXCEPT !.pc = "commit"]

ImportUnchanged ==
    UNCHANGED <<tables, now, reqs, server, sean, bearer, logouts, kept, payrollPeriods>>

\* BEGIN
ImportBegin(r) ==
    /\ server = "lorenco"
    /\ batches[r].pc = "idle"
    /\ Len(journals) < MaxJournals
    /\ \E array \in BOOLEAN, txns \in Batches :
          IF ~array
          THEN /\ res' = Fail("lorenco", "import", 400, "Transactions array is required")
               /\ UNCHANGED batches
          ELSE /\ batches' = [batches EXCEPT ![r] = NextTxn([NoBatch EXCEPT !.txns = txns])]
               /\ UNCHANGED res
    /\ UNCHANGED <<journals, integration_transactions>>
    /\ ImportUnchanged

\* the required fields and the duplicate check of one transaction
ImportCheck(r) ==
    LET b == batches[r]
        externalId == b.txns[b.i]
    IN  /\ b.pc = "check"
        /\ \E fields \in BOOLEAN :
              IF ~fields
              THEN /\ batches' = [batches EXCEPT ![r] = NextTxn(b)]
                   /\ UNCHANGED res
              ELSE IF externalId = "null"
              THEN /\ batches' = [batches EXCEPT ![r].pc = "journal"]
                   /\ UNCHANGED res
              ELSE IF b.aborted
              THEN \* the SELECT fails in the aborted transaction: ROLLBACK
                   /\ batches' = [batches EXCEPT ![r] = NoBatch]
                   /\ res' = Fail("lorenco", "import", 500, "Failed to process transactions")
              ELSE IF externalId \in Range(integration_transactions) \cup Range(b.rows)
              THEN /\ batches' = [batches EXCEPT ![r] = NextTxn(b)]
                   /\ UNCHANGED res
              ELSE /\ batches' = [batches EXCEPT ![r].pc = "journal"]
                   /\ UNCHANGED res
        /\ UNCHANGED <<journals, integration_transactions>>
        /\ ImportUnchanged

\* JournalService.createJournal(client, ...)
CreateJournal(b, externalId, outcome) ==
    IF b.aborted \/ outcome = "error"
    THEN NextTxn([b EXCEPT !.aborted = TRUE])
    ELSE IF outcome = "rejected"
    THEN NextTxn(b)
    ELSE [b EXCEPT !.journals = Append(b.journals, externalId), !.pc = "row"]

ImportJournal(r) ==
    LET b == batches[r]
    IN  /\ b.pc = "journal"
        /\ \E outcome \in {"ok", "rejected", "error"} :
              batches' = [batches EXCEPT ![r] = CreateJournal(b, b.txns[b.i], outcome)]
        /\ UNCHANGED <<res, journals, integration_transactions>>
        /\ ImportUnchanged

\* INSERT INTO integration_transactions
ImportRow(r) ==
    LET b == batches[r]
        externalId == b.txns[b.i]
    IN  /\ b.pc = "row"
        /\ Waits(r, externalId) => Deadlock(r, externalId)
        /\ batches' =
              [batches EXCEPT ![r] =
                  IF UniqueViolation(r, externalId) \/ Waits(r, externalId)
                  THEN NextTxn([b EXCEPT !.aborted = TRUE])
                  ELSE NextTxn([b EXCEPT !.rows = Append(b.rows, externalId),
                                         !.succeeded = b.succeeded + 1])]
        /\ UNCHANGED <<res, journals, integration_transactions>>
        /\ ImportUnchanged

\* COMMIT; in an aborted transaction it rolls back
ImportCommit(r) ==
    LET b == batches[r]
    IN  /\ b.pc = "commit"
        /\ IF b.aborted
           THEN UNCHANGED <<journals, integration_transactions>>
           ELSE /\ journals' = journals \o b.journals
                /\ integration_transactions' = integration_transactions \o b.rows
        /\ batches' = [batches EXCEPT ![r] = NoBatch]
        /\ res' = [Response("lorenco", "import", IF b.succeeded > 0 THEN 201 ELSE 400)
                      EXCEPT !.cookie = b.succeeded]
        /\ ImportUnchanged

InitImport ==
    /\ server = "lorenco"
    /\ users = <<Owner>>
    /\ companies = <<NewCompanyRow(1, "active")>>
    /\ user_company_access = <<EdgeRow(1, 1, "business_owner", TRUE, TRUE)>>
    /\ firm_company_access = <<>>
    /\ invitations = <<>> /\ locations = <<>> /\ company_settings = <<>>
    /\ now = 0
    /\ NoSean
    /\ reqs = [r \in ReqIds |-> IdleReq]
    /\ res = NoResponse

NextImport ==
    \E r \in ReqIds :
        \/ ImportBegin(r)
        \/ ImportCheck(r)
        \/ ImportJournal(r)
        \/ ImportRow(r)
        \/ ImportCommit(r)

SpecImport == InitImport /\ [][NextImport]_vars

Posted(table, externalId) ==
    Cardinality({k \in 1..Len(table) : table[k] = externalId})

\* C33: for one integration at most one journal entry and at most one
\* integration_transactions row is ever posted per externalId, across every
\* sequence and interleaving of batches.
C33_OncePerExternalId ==
    \A externalId \in ExternalIds \ {"null"} :
        /\ Posted(journals, externalId) <= 1
        /\ Posted(integration_transactions, externalId) <= 1

\* a batch wrote a journal for an externalId that another batch has imported
\* in the meantime
C33_Witness ==
    \E r \in ReqIds :
        /\ batches[r].pc = "commit"
        /\ batches[r].aborted
        /\ \E externalId \in Range(batches[r].journals) :
              /\ externalId # "null"
              /\ externalId \notin Range(batches[r].rows)
              /\ Posted(journals, externalId) = 1
              /\ Posted(integration_transactions, externalId) = 1

-----------------------------------------------------------------------------
\* C34: no operation mints a token scoped to a company whose subscription
\* status is suspended or pending, be it login with its automatic binding,
\* sso-launch or select-company.
C34_NoTokenIntoSuspended ==
    (Minted /\ res.token.companyId # 0)
        => StatusOf(res.token.companyId) \notin {"suspended", "pending"}

-----------------------------------------------------------------------------
(* SpecRevoke: login, select-company and sso-launch next to the removal of  *)
(* users from companies.                                                    *)

NextRevoke ==
    \/ Next
    \/ PosRemoveUser(TRUE, FALSE)
    \/ MockRemoveUserFromCompany(TRUE)

\* the stores of Init with both companies active
InitRevoke ==
    /\ Init
    /\ \A c \in Range(companies) : c.is_active /\ c.subscription_status = "active"

SpecRevoke == InitRevoke /\ [][NextRevoke]_vars

\* the user has access edges into the company and none of them is active
Deactivated(userId, companyId) ==
    /\ EdgesOf(userId, companyId) # <<>>
    /\ ~HasActiveEdge(userId, companyId)

\* a login, select-company or sso-launch gives a user that is no super-admin
\* a token scoped to the company
ScopedTokenFor(userId, companyId) ==
    /\ res.op \in {"login", "select-company", "sso-launch"}
    /\ Minted
    /\ res.token.userId = userId /\ res.token.companyId = companyId
    /\ ~IsSuperAdmin(userId)

-----------------------------------------------------------------------------
(* SpecReselect: select-company authorised by a token that a login or an    *)
(* earlier select-company handed out and the client kept.                   *)

\* req.user: the claims of the token the client kept
KeptUser ==
    [userId |-> memo.token.userId,
     username |-> memo.token.username,
     userType |-> memo.token.userType,
     accountingFirmId |-> memo.token.accountingFirmId]

Reselect ==
    /\ memo.status = 200 /\ memo.token # NoToken
    /\ \E companyId \in CompanyIds :
          res' = CASE server = "eco" -> EcoSelectCompanyResponse(KeptUser, companyId)
                   [] server = "pos" -> PosSelectCompanyResponse(KeptUser, companyId)
                   [] OTHER -> MockSelectCompanyResponse(KeptUser, companyId)
    /\ UNCHANGED store

NextReselect ==
    \/ EcoLogin
    \/ PosLogin
    \/ MockLogin
    \/ Keep
    \/ Reselect

SpecReselect == InitRevoke /\ [][NextReselect]_vars

\* the token says that its holder is a super-admin; isSuperAdmin: false and a
\* token without the field say the same
SaysSuperAdmin(token) == token.isSuperAdmin = "true"

\* C36: the token minted by select-company carries the user id, the login
\* identifier and the super-admin flag of the token that authorised the
\* call.
C36_SameIdentity ==
    [][(res'.op = "select-company" /\ res'.status = 200 /\ res'.token # NoToken)
          => /\ res'.token.userId = memo.token.userId
             /\ res'.token.username = memo.token.username
             /\ (SaysSuperAdmin(res'.token) <=> SaysSuperAdmin(memo.token))]_vars

-----------------------------------------------------------------------------
(* SpecAdmin: the administrative routes that change the status of a company *)
(* or deactivate a user. The caller is user 1 with a token that says        *)
(* super-admin or does not.                                                 *)

AdminUnchanged ==
    UNCHANGED <<user_company_access, invitations, locations, company_settings, now,
                reqs, fixed>>

\* requireSuperAdmin
RequireSuperAdmin(reqUser) == reqUser.isSuperAdmin = "true"

\* the first row with the id, 0 when there is none
FirstWithId(table, id) ==
    IF \E k \in 1..Len(table) : table[k].id = id
    THEN CHOOSE k \in 1..Len(table) :
            table[k].id = id /\ \A j \in 1..(k - 1) : table[j].id # id
    ELSE 0

\* PUT /admin/companies/:id/status (pos)
PosAdminCompanyStatus ==
    /\ server = "pos"
    /\ \E isSuperAdmin \in Flags, id \in CompanyIds \cup {0},
          status \in Statuses \cup {"void"}, ok \in BOOLEAN :
          LET reqUser == Identity("business_owner", isSuperAdmin)
              base == [Response("pos", "admin-company-status", 200) EXCEPT
                         !.identity = reqUser, !.companyId = id]
          IN  IF ~RequireSuperAdmin(reqUser)
              THEN /\ res' = [base EXCEPT !.status = 403,
                                          !.error = "Super admin access required"]
                   /\ UNCHANGED companies
              ELSE IF status \notin Statuses
              THEN /\ res' = [base EXCEPT !.status = 400, !.error = "Invalid status"]
                   /\ UNCHANGED companies
              ELSE IF ~ok
              THEN /\ res' = [base EXCEPT !.status = 500, !.error = "Database error"]
                   /\ UNCHANGED companies
              ELSE IF CompanyRows(id) = <<>>
              THEN /\ res' = [base EXCEPT !.status = 404, !.error = "Company not found"]
                   /\ UNCHANGED companies
              ELSE /\ companies' =
                         [k \in 1..Len(companies) |->
                             IF companies[k].id = id
                             THEN [companies[k] EXCEPT !.subscription_status = status]
                             ELSE companies[k]]
                   /\ res' = [base EXCEPT !.subscriptionStatus = status]
    /\ UNCHANGED users
    /\ AdminUnchanged

\* PUT /admin/companies/:id/status (mock)
MockAdminCompanyStatus ==
    /\ server = "mock"
    /\ \E isSuperAdmin \in Flags, id \in CompanyIds \cup {0}, is_active \in Flags :
          LET reqUser == Identity("business_owner", isSuperAdmin)
              idx == FirstWithId(companies, id)
              base == [Response("mock", "admin-company-status", 200) EXCEPT
                         !.identity = reqUser, !.companyId = id]
          IN  IF idx = 0
              THEN /\ res' = [base EXCEPT !.status = 404, !.error = "Company not found"]
                   /\ UNCHANGED companies
              ELSE /\ companies' = [companies EXCEPT ![idx].is_active = (is_active # "false")]
                   /\ res' = base
    /\ UNCHANGED users
    /\ AdminUnchanged

\* DELETE /admin/users/:id (mock)
MockAdminDeleteUser ==
    /\ server = "mock"
    /\ \E isSuperAdmin \in Flags, id \in UserIds \cup {0} :
          LET reqUser == Identity("business_owner", isSuperAdmin)
              idx == FirstWithId(users, id)
              base == [Response("mock", "admin-delete-user", 200) EXCEPT
                         !.identity = reqUser, !.userId = id]
          IN  IF idx = 0
              THEN /\ res' = [base EXCEPT !.status = 404, !.error = "User not found"]
                   /\ UNCHANGED users
              ELSE /\ users' = [users EXCEPT ![idx].is_active = FALSE]
                   /\ res' = base
    /\ UNCHANGED companies
    /\ AdminUnchanged

NextAdmin ==
    \/ PosAdminCompanyStatus
    \/ MockAdminCompanyStatus
    \/ MockAdminDeleteUser

SpecAdmin == InitEdges /\ [][NextAdmin]_vars

\* C37: the administrative operations that change the status of a company or
\* deactivate a user take effect only for a caller whose identity is
\* super-admin; every other caller gets 403 and the store stays as it is.
C37_SuperAdminOnly ==
    [][(res'.op \in {"admin-company-status", "admin-delete-user"}
            /\ res'.identity.isSuperAdmin # "true")
          => res'.status = 403 /\ UNCHANGED <<users, companies>>]_vars

-----------------------------------------------------------------------------
(* SpecOwner: invitations by a caller whose token says business_owner of    *)
(* company 1, while the access edges are written. The owner edge of user 1  *)
(* is active or was deactivated before.                                     *)

InitOwner ==
    /\ server = "pos"
    /\ users = <<Owner, UserRow(2, FALSE, "company_user", 0)>>
    /\ companies = <<NewCompanyRow(1, "active"), NewCompanyRow(2, "active")>>
    /\ \E active \in BOOLEAN :
          user_company_access = <<EdgeRow(1, 1, "business_owner", TRUE, active),
                                  EdgeRow(2, 1, "cashier", TRUE, TRUE)>>
    /\ firm_company_access = <<>>
    /\ invitations = <<>>
    /\ locations = <<>>
    /\ company_settings = <<>>
    /\ now = 0
    /\ NoSean
    /\ reqs = [r \in ReqIds |-> IdleReq]
    /\ res = NoResponse

NextOwner ==
    \/ PosInvite
    \/ PosRemoveUser(TRUE, FALSE)
    \/ PosUpsertAccess(TRUE, FALSE)

SpecOwner == InitOwner /\ [][NextOwner]_vars

HoldsActiveOwnerEdge(userId, companyId) ==
    \E a \in Range(user_company_access) :
        /\ a.user_id = userId /\ a.company_id = companyId
        /\ a.role = "business_owner" /\ a.is_active

\* C38: POST /invite creates an invitation into a company only when the
\* caller holds an active business_owner access edge into that company at
\* that time; every other request is refused and creates no invitation row.
C38_OnlyActiveOwnerInvites ==
    [][(res'.op = "invite"
            /\ ~HoldsActiveOwnerEdge(res'.identity.userId, res'.companyId))
          => res'.status # 200 /\ UNCHANGED invitations]_vars

-----------------------------------------------------------------------------
(* SpecSessionRace: validateSession as its two database calls, the lookup   *)
(* and the delete of an expired session, for calls that run concurrently.   *)

\* what the caller of validateSession gets: a user, null, or the error thrown
Validated(token, status, email, error) ==
    [Response("sean", "validateSession", status) EXCEPT
        !.email = email, !.cookie = token, !.error = error]

\* prisma.session.findUnique({ where: { token } }) and the test of expiresAt
ValidateLookup(r, exclusive) ==
    /\ server = "sean"
    /\ MayBegin(r, exclusive)
    /\ \E token \in 1..MaxSessions :
          IF SessionsOf(token) = {}
          THEN /\ res' = Validated(token, 401, "null", "")
               /\ UNCHANGED reqs
          ELSE LET session == CHOOSE s \in SessionsOf(token) : TRUE
               IN  IF SessionExpired(session)
                   THEN /\ reqs' = [reqs EXCEPT ![r] =
                                       [IdleReq EXCEPT !.op = "validateSession",
                                                       !.pc = "delete", !.session = token]]
                        /\ UNCHANGED res
                   ELSE /\ res' = Validated(token, 200, session.email, "")
                        /\ UNCHANGED reqs
    /\ UNCHANGED <<tables, now, server, elsewhere>>

\* prisma.session.delete({ where: { id: session.id } }); the delete of a
\* record that is not there throws
ValidateDelete(r) ==
    /\ reqs[r].op = "validateSession" /\ reqs[r].pc = "delete"
    /\ LET token == reqs[r].session
       IN  IF SessionsOf(token) # {}
           THEN /\ sean_session' = sean_session \ SessionsOf(token)
                /\ res' = Validated(token, 401, "null", "")
           ELSE /\ UNCHANGED sean_session
                /\ res' = Validated(token, 500, "undefined",
                                    "Record to delete does not exist.")
    /\ reqs' = [reqs EXCEPT ![r] = IdleReq]
    /\ UNCHANGED <<tables, now, server, kept, books, bearer, logouts, sean_allowedEmail,
                   sean_user, sean_issued>>

NextSessionRace ==
    \/ SeanLogin(FALSE)
    \/ Tick
    \/ \E r \in ReqIds : ValidateLookup(r, FALSE)
    \/ \E r \in ReqIds : ValidateDelete(r)

SpecSessionRace == InitSean /\ [][NextSessionRace]_vars

\* C39: of two concurrent validateSession calls for the same expired session
\* token both return null and neither throws, however their lookups and
\* deletes interleave.
C39_NeitherThrows ==
    res.op = "validateSession" => res.error = "" /\ res.status # 500

=============================================================================
